---------------------------- MODULE Spec2Model ----------------------------
(***************************************************************************)
(* A model of the terminal UI framework: Pixel / ThemeDict objects on a    *)
(* heap (Python objects are shared by reference), PixelGrid with its       *)
(* compositing operations, the Display diff renderer writing to a terminal *)
(* device, and the Screen / DisplayManager frame pipeline.                 *)
(*                                                                         *)
(* Python objects are modelled with identity: `pixels` and `theme_dicts`   *)
(* are the heap (index = object identity), a grid's cells hold Pixel       *)
(* references.  After every operation the heap is renumbered in order of   *)
(* first reference (garbage dropped), so that two states that differ only  *)
(* in object addresses are one state.                                      *)
(*                                                                         *)
(* An operation that raises leaves its outcome in `call.raised`.  Three    *)
(* specifications share the definitions:                                   *)
(*   SpecGrid     calls on two PixelGrid objects (overlay, clear, fill..)  *)
(*   SpecDisplay  calls on a Display and the terminal it writes to         *)
(*   Spec         the frame loop: Screen, its objects, DisplayManager      *)
(* and two more exercise the value objects on their own:                   *)
(*   SpecAxis     assignments to a Coordinate's two Axis objects           *)
(*   SpecTheme    a PixelTheme through its mutators                        *)
(* and three more the parts built on them:                                 *)
(*   SpecText     a Text grid laid out from its text and size              *)
(*   SpecMouse    the frame loop with a mouse cursor, and a container      *)
(*   SpecMain     the program of __main__.py from start to exit            *)
(***************************************************************************)
EXTENDS Integers, Sequences, FiniteSets, TLC

VARIABLES
    pixels,       \* heap of Pixel objects: <<[char, themes (ThemeDict ref)]>>
    theme_dicts,  \* heap of ThemeDict objects: <<[current, themes]>>
    grids,        \* the PixelGrid objects, by the attribute holding them
    terminal,     \* the terminal device: per cell the string last written
    printed,      \* what the last call wrote to the device, in order
    call,         \* the last call: [op, raised, ret]
    entry,        \* the grids' contents (by value) when the last call began
    edits,        \* edit calls made so far (bounded by MaxEdits)
    screen,       \* the current Screen: [should_draw, terminal_objects, mouse]
    objects,      \* the BaseObjects built: name -> [z_index, visible, should_draw,
                  \* mouse_over]
    inserted,     \* the objects on the Screen in the order they were added
    pc,           \* where the main loop is: "loop", "updated", "crashed"
    axes,         \* a Coordinate object: its two Axis objects with their caches
    pixel_theme,  \* a PixelTheme object: colour list, buckets, cached string
    cursor_visible, \* whether the terminal shows its cursor
    suppressor,   \* MouseHandler, its MouseBlocker worker and their socket
    image,        \* an Image object: frames, animation clock, current_frame
    priority_queue, \* a PriorityQueue object: its (item, priority) entries
    container,    \* a ContainerObject: [_objects, should_draw]; its children
                  \* are in objects, its grid is grids["container"]
    button,       \* a Button object and the raw input it reads
    rate_limiter, \* a RateLimiter object and the clock
    pixel_row     \* a row of an image file and what _get_pixel_row made of it

vars == <<pixels, theme_dicts, grids, terminal, printed, call, entry, edits,
          screen, objects, inserted, pc, axes, pixel_theme, cursor_visible,
          suppressor, image, priority_queue, container, button, rate_limiter,
          pixel_row>>

\* The value objects exercised on their own (SpecAxis, SpecTheme) and the
\* terminal's cursor, which only TerminalSystem switches (SpecMain).
value_objects == <<axes, pixel_theme, cursor_visible>>
\* No value object, and no TerminalSystem that has hidden the cursor.
NoValueObjects ==
    /\ axes = <<>>
    /\ pixel_theme = <<>>
    /\ cursor_visible = TRUE

\* The objects that have a specification of their own and take no part in
\* the others: the mouse suppressor pair, an Image, a PriorityQueue, and
\* (more_standalone) a ContainerObject, a Button, a RateLimiter, an image row.
more_standalone == <<container, button, rate_limiter, pixel_row>>
NoMoreStandalone ==
    /\ container = <<>>
    /\ button = <<>>
    /\ rate_limiter = <<>>
    /\ pixel_row = <<>>
standalone == <<suppressor, image, priority_queue, more_standalone>>
NoStandalone ==
    /\ suppressor = <<>>
    /\ image = <<>>
    /\ priority_queue = <<>>
    /\ NoMoreStandalone

----------------------------------------------------------------------------
(* Bounds *)

\* Width of the widest grid of the model (one-row display).
MaxWidth == 3
\* Calls that edit a grid in one run.
MaxEdits == 2

----------------------------------------------------------------------------
(* Colors and PixelTheme.  Inside a ThemeDict a PixelTheme is represented   *)
(* by its colour list: the grid operations never mutate one.  The          *)
(* PixelTheme object with its mutators is modelled further down.           *)

ColorType_FORE == "foreground"
ColorType_BACK == "background"
ColorType_STYLE == "style"
ColorType_OTHER == "other"

Color(code, type) == [color |-> code, color_type |-> type]

Colors_END == Color("^[0m", ColorType_OTHER)
Colors_RED == Color("^[31m", ColorType_FORE)
Colors_BACKGROUND_BLACK == Color("^[40m", ColorType_BACK)
Colors_BOLD == Color("^[1m", ColorType_STYLE)

EmptyBuckets == [foreground |-> <<>>, background |-> <<>>, style |-> <<>>, other |-> <<>>]

\* The loop body without its reset branch: every colour is only filed.
ListToThemeStepNoReset(b, color) ==
    CASE color.color_type = ColorType_FORE  -> [b EXCEPT !.foreground = <<color>>]
      [] color.color_type = ColorType_BACK  -> [b EXCEPT !.background = <<color>>]
      [] color.color_type = ColorType_STYLE-> [b EXCEPT !.style = Append(@, color)]
      [] color.color_type = ColorType_OTHER-> [b EXCEPT !.other = Append(@, color)]

\* One iteration of the loop in PixelTheme._list_to_theme: a reset colour
\* clears the four buckets, then the colour is filed under its type (the
\* match statement follows the if, it is not an else).
ListToThemeStep(b, color) ==
    LET r == IF color.color = Colors_END.color THEN EmptyBuckets ELSE b
    IN  CASE color.color_type = ColorType_FORE  -> [r EXCEPT !.foreground = <<color>>]
          [] color.color_type = ColorType_BACK  -> [r EXCEPT !.background = <<color>>]
          [] color.color_type = ColorType_STYLE-> [r EXCEPT !.style = Append(@, color)]
          [] color.color_type = ColorType_OTHER-> [r EXCEPT !.other = Append(@, color)]

RECURSIVE ListToTheme(_, _)
ListToTheme(b, color_list) ==
    IF color_list = <<>> THEN b
    ELSE ListToTheme(ListToThemeStep(b, Head(color_list)), Tail(color_list))

RECURSIVE ConcatCodes(_)
ConcatCodes(colors) ==
    IF colors = <<>> THEN "" ELSE Head(colors).color \o ConcatCodes(Tail(colors))

\* PixelTheme._to_str on the buckets: other, style, foreground, background.
ToStr(b) ==
    ConcatCodes(b.other) \o ConcatCodes(b.style)
        \o ConcatCodes(b.foreground) \o ConcatCodes(b.background)

\* str() of a PixelTheme freshly built from color_list.
PixelThemeStr(color_list) == ToStr(ListToTheme(EmptyBuckets, color_list))

----------------------------------------------------------------------------
(* ThemeDict: two of the eight ThemeTypes are modelled.                    *)

DEFAULT == "default"
HOVERED == "hovered"
ThemeTypes == {DEFAULT, HOVERED}

\* ThemeDict(themes, unspecified_theme=PixelTheme(), initial_theme=DEFAULT):
\* `given` maps some theme types to colour lists, the others fall back.
ThemeDict(given) ==
    [current |-> DEFAULT,
     themes  |-> [t \in ThemeTypes |-> IF t \in DOMAIN given THEN given[t] ELSE <<>>]]

\* ThemeDict.__eq__ compares the _themes dictionaries only.
ThemeDictEq(a, b) == a.themes = b.themes

\* ThemeDict.__str__: the current theme's string.
ThemeDictStr(td) == PixelThemeStr(td.themes[td.current])

----------------------------------------------------------------------------
(* The heap.  A world is [pixels, theme_dicts, grids, terminal, printed].  *)

World == [pixels |-> pixels, theme_dicts |-> theme_dicts, grids |-> grids,
          terminal |-> terminal, printed |-> printed]

ThemesOf(w, p) == w.theme_dicts[w.pixels[p].themes]

\* A Pixel by value: what a caller passes in (a temporary object).
PixelValue(char, td) == [char |-> char, themes |-> td]

\* The value of the heap pixel p.
ValueOf(w, p) == PixelValue(w.pixels[p].char, ThemesOf(w, p))

\* Pixel.printable_str of a pixel value: theme string, character, reset.
PrintableStrOf(v) == ThemeDictStr(v.themes) \o v.char \o Colors_END.color

\* Pixel.printable_str
PrintableStr(w, p) == PrintableStrOf(ValueOf(w, p))

\* Pixel.__eq__ / Pixel.__ne__ on pixel values
PixelValueEq(a, b) == a.char = b.char /\ ThemeDictEq(a.themes, b.themes)
PixelValueNe(a, b) == ~PixelValueEq(a, b)

\* Pixel.__eq__ / Pixel.__ne__ on heap pixels
\* A comparison under which every pixel differs from every other (a refresh
\* that rewrites each cell): used to show what C33 rests on.
PixelNeAlways(w, p, q) == TRUE

PixelEq(w, p, q) == PixelValueEq(ValueOf(w, p), ValueOf(w, q))
PixelNe(w, p, q) == ~PixelEq(w, p, q)

\* Allocation of a new Pixel with a new ThemeDict of its own.
NewPixel(w, v) ==
    [w EXCEPT !.theme_dicts = Append(@, v.themes),
              !.pixels = Append(@, [char |-> v.char, themes |-> Len(w.theme_dicts) + 1])]

LastPixel(w) == Len(w.pixels)

\* Pixel.set(other): char copied, the ThemeDict shared by reference.
Pixel_set(w, p, other) ==
    [w EXCEPT !.pixels[p] = [char |-> w.pixels[other].char, themes |-> w.pixels[other].themes]]

\* Pixel.change_theme: the ThemeDict object's current pointer is assigned.
Pixel_change_theme(w, p, theme) ==
    [w EXCEPT !.theme_dicts[w.pixels[p].themes].current = theme]

\* Pixel.themes setter with a deep copy of a ThemeDict value.
Pixel_set_themes(w, p, td) ==
    [w EXCEPT !.theme_dicts = Append(@, td),
              !.pixels[p].themes = Len(w.theme_dicts) + 1]

----------------------------------------------------------------------------
(* Coordinates.  An Axis is [unit, axis_size, value, char_value,           *)
(* percent_value]: the value in the axis's unit and the two cached         *)
(* readings.  Python numbers are exact fractions [n, d] in lowest terms    *)
(* (d > 0): the true division of _get_percent_value yields a float, and    *)
(* int * float products feed back into _value.                             *)

RECURSIVE Gcd(_, _)
Gcd(a, b) == IF b = 0 THEN a ELSE Gcd(b, a % b)

Number(n, d) == LET g == Gcd(n, d) IN [n |-> n \div g, d |-> d \div g]
Whole(n) == [n |-> n, d |-> 1]
\* a * b
Times(a, b) == Number(a.n * b.n, a.d * b.d)
\* a / b (b is not zero)
TrueDiv(a, b) == Number(a.n * b.d, a.d * b.n)
\* int(a): truncation towards zero
int(a) == IF a.n >= 0 THEN a.n \div a.d ELSE -((-a.n) \div a.d)

UnitNames_CHAR == "CHAR"
UnitNames_PERCENT == "PERCENT"
UnitNames == {UnitNames_CHAR, UnitNames_PERCENT}

\* Axis._get_char_value
Axis_get_char_value(a) ==
    IF a.unit = UnitNames_CHAR THEN a.value ELSE Times(a.value, Whole(a.axis_size))

\* Axis._get_percent_value
Axis_get_percent_value(a) ==
    IF a.unit = UnitNames_PERCENT THEN a.value
    ELSE IF a.axis_size # 0 THEN TrueDiv(a.value, Whole(a.axis_size)) ELSE Whole(0)

\* Axis._get_value
Axis_get_value(a, unit) ==
    IF a.unit = unit THEN a.value
    ELSE IF unit = UnitNames_CHAR THEN Axis_get_char_value(a)
    ELSE Axis_get_percent_value(a)

\* Axis.__init__: the two caches are computed from the value.
Axis_init(value, unit, axis_size) ==
    LET a0 == [unit |-> unit, axis_size |-> axis_size, value |-> value,
               char_value |-> Whole(0), percent_value |-> Whole(0)]
        a1 == [a0 EXCEPT !.char_value = Axis_get_char_value(a0)]
    IN  [a1 EXCEPT !.percent_value = Axis_get_percent_value(a1)]

\* Axis.value setter: the caches are assigned from the properties, which
\* return the caches themselves.
Axis_set_value(a, new_value) ==
    LET a1 == [a EXCEPT !.value = new_value]
        a2 == [a1 EXCEPT !.char_value = a1.char_value]
    IN  [a2 EXCEPT !.percent_value = a2.percent_value]

\* Axis.char_value setter
Axis_set_char_value(a, new_value) ==
    LET a1 == [a EXCEPT !.char_value = new_value]
        a2 == [a1 EXCEPT !.value = Axis_get_value(a1, UnitNames_CHAR)]
    IN  [a2 EXCEPT !.percent_value = Axis_get_percent_value(a2)]

\* Axis.percent_value setter
Axis_set_percent_value(a, new_value) ==
    LET a1 == [a EXCEPT !.percent_value = new_value]
        a2 == [a1 EXCEPT !.value = Axis_get_value(a1, UnitNames_PERCENT)]
    IN  [a2 EXCEPT !.char_value = Axis_get_char_value(a2)]

\* A screen_size setter that stores the extent and recomputes nothing: used
\* to show what C36 rests on.
Axis_set_screen_size_only(a, new_screen_size) ==
    [a EXCEPT !.axis_size = new_screen_size]

\* Axis.screen_size setter
Axis_set_screen_size(a, new_screen_size) ==
    LET a1 == [a EXCEPT !.axis_size = new_screen_size]
    IN  IF a1.unit = UnitNames_CHAR
        THEN [a1 EXCEPT !.percent_value = Axis_get_percent_value(a1)]
        ELSE LET a2 == [a1 EXCEPT !.char_value = Axis_get_char_value(a1)]
             IN  [a2 EXCEPT !.value = Axis_get_value(a2, a2.unit)]

\* Axis(value, axis_size=n): a CHAR axis, as the grids' sizes and offsets are.
Axis(value, axis_size) == Axis_init(Whole(value), UnitNames_CHAR, axis_size)

\* Axis.__eq__
AxisEq(a, b) == a.unit = b.unit /\ a.axis_size = b.axis_size /\ a.value = b.value

Coordinate(x_axis, y_axis) ==
    [x_axis |-> x_axis, y_axis |-> y_axis,
     screen_size |-> [kind |-> "Point", x |-> x_axis.axis_size, y |-> y_axis.axis_size]]

AxisNames == {"x_axis", "y_axis"}

\* Coordinate.x_char / y_char getters
Coordinate_get_char(c, ax) == int(c[ax].char_value)
\* Coordinate.x_percent / y_percent getters
Coordinate_get_percent(c, ax) == c[ax].percent_value
\* Coordinate.x_char / y_char setters
Coordinate_set_char(c, ax, new) == [c EXCEPT ![ax] = Axis_set_char_value(@, new)]
\* Coordinate.x_percent / y_percent setters
Coordinate_set_percent(c, ax, new) == [c EXCEPT ![ax] = Axis_set_percent_value(@, new)]

x_char(c) == Coordinate_get_char(c, "x_axis")
y_char(c) == Coordinate_get_char(c, "y_axis")

\* Coordinate.__eq__ / __ne__: both axes equal.
CoordinateEq(a, b) == AxisEq(a.x_axis, b.x_axis) /\ AxisEq(a.y_axis, b.y_axis)
CoordinateNe(a, b) == ~CoordinateEq(a, b)

----------------------------------------------------------------------------
(* PixelGrid: [coordinates, size, default_pixel (ref), grid (rows of refs)] *)

RECURSIVE FlattenRows(_)
FlattenRows(rows) ==
    IF rows = <<>> THEN <<>> ELSE Head(rows) \o FlattenRows(Tail(rows))

\* The Pixel references a grid holds: its default pixel, then its cells.
GridRefs(g) == <<g.default_pixel>> \o FlattenRows(g.grid)

RECURSIVE Dedup(_, _)
Dedup(s, acc) ==
    IF s = <<>> THEN acc
    ELSE Dedup(Tail(s),
               IF \E i \in 1..Len(acc) : acc[i] = Head(s) THEN acc
               ELSE Append(acc, Head(s)))

IndexOf(s, e) == CHOOSE i \in 1..Len(s) : s[i] = e

\* The grid g with every Pixel reference p replaced by f[p].
MapRefs(g, f) ==
    [g EXCEPT !.default_pixel = f[@],
              !.grid = [r \in DOMAIN @ |-> [c \in DOMAIN @[r] |-> f[@[r][c]]]]]

Range(s) == {s[i] : i \in DOMAIN s}

\* The order in which the grids are walked when the heap is renumbered.
GridOrder ==
    <<"display", "previous", "screen", "self", "other", "container", "obj1", "obj2",
      "obj3", "text">>

RECURSIVE RefsInOrder(_, _)
RefsInOrder(gs, i) ==
    IF i > Len(GridOrder) THEN <<>>
    ELSE (IF GridOrder[i] \in DOMAIN gs THEN GridRefs(gs[GridOrder[i]]) ELSE <<>>)
            \o RefsInOrder(gs, i + 1)

\* Object addresses carry no meaning: renumber the reachable Pixels and
\* ThemeDicts in order of first reference and drop the unreachable ones.
Canon(w) ==
    LET order   == Dedup(RefsInOrder(w.grids, 1), <<>>)
        tdrefs  == [i \in 1..Len(order) |-> w.pixels[order[i]].themes]
        tdorder == Dedup(tdrefs, <<>>)
        np      == [p \in Range(order) |-> IndexOf(order, p)]
    IN  [w EXCEPT
            !.pixels = [i \in 1..Len(order) |->
                            [char |-> w.pixels[order[i]].char,
                             themes |-> IndexOf(tdorder, w.pixels[order[i]].themes)]],
            !.theme_dicts = [i \in 1..Len(tdorder) |-> w.theme_dicts[tdorder[i]]],
            !.grids = [n \in DOMAIN w.grids |-> MapRefs(w.grids[n], np)]]

\* copy.deepcopy of a PixelGrid: every distinct Pixel it references is copied
\* once (deepcopy's memo keeps the sharing between cells), each copy with a
\* ThemeDict of its own (Pixel.__deepcopy__ copies the themes without memo).
DeepCopyGrid(w, g) ==
    LET olds  == Dedup(GridRefs(g), <<>>)
        basep == Len(w.pixels)
        baset == Len(w.theme_dicts)
        cp    == [p \in Range(olds) |-> basep + IndexOf(olds, p)]
    IN  [w    |-> [w EXCEPT
                    !.pixels = @ \o [i \in 1..Len(olds) |->
                                        [char |-> w.pixels[olds[i]].char, themes |-> baset + i]],
                    !.theme_dicts = @ \o [i \in 1..Len(olds) |-> ThemesOf(w, olds[i])]],
         grid |-> MapRefs(g, cp)]

Width(g) == IF g.grid = <<>> THEN 0 ELSE Len(g.grid[1])
Height(g) == Len(g.grid)

\* PixelGrid.__init__(coordinates, size, default_pixel): every cell refers to
\* the one default_pixel object; then, cell by cell, that object's themes are
\* replaced by a deep copy of overall_themes (the default ThemeDict()).
PixelGrid_init(w, name, coordinates, size, default_pixel) ==
    LET g  == [coordinates |-> coordinates, size |-> size,
               default_pixel |-> default_pixel,
               grid |-> [r \in 1..y_char(size) |-> [c \in 1..x_char(size) |-> default_pixel]]]
        w1 == IF x_char(size) > 0 /\ y_char(size) > 0
              THEN Pixel_set_themes(w, default_pixel, ThemeDict(<<>>))
              ELSE w
    IN  [w1 EXCEPT !.grids = [n \in DOMAIN @ \cup {name} |-> IF n = name THEN g ELSE @[n]]]

RECURSIVE SetEach(_, _, _)
\* for pix in refs: pix.set(other), in order.
SetEach(w, refs, other) ==
    IF refs = <<>> THEN w
    ELSE SetEach(Pixel_set(w, Head(refs), other), Tail(refs), other)

\* PixelGrid.clear(): for pix in self: pix.set(self._default_pixel)
PixelGrid_clear(w, name) ==
    SetEach(w, FlattenRows(w.grids[name].grid), w.grids[name].default_pixel)

\* PixelGrid.fill(fill_pixel), fill_pixel a Pixel on the heap.
PixelGrid_fill(w, name, fill_pixel) ==
    SetEach(w, FlattenRows(w.grids[name].grid), fill_pixel)

\* PixelGrid.change_pixel(new_pixel, coordinates): the cell refers to a deep
\* copy of new_pixel (x, y zero-based and inside the grid).
PixelGrid_change_pixel(w, name, v, x, y) ==
    LET w1 == NewPixel(w, v)
    IN  [w1 EXCEPT !.grids[name].grid[y + 1][x + 1] = LastPixel(w1)]

\* PixelGrid.change_theme(theme_name, coordinates)
PixelGrid_change_theme(w, name, theme, x, y) ==
    Pixel_change_theme(w, w.grids[name].grid[y + 1][x + 1], theme)

\* PixelGrid.update_theme(themes, coordinates): the cell's Pixel gets a deep
\* copy of the ThemeDict as its themes.
PixelGrid_update_theme(w, name, themes, x, y) ==
    Pixel_set_themes(w, w.grids[name].grid[y + 1][x + 1], themes)

RECURSIVE UpdateThemesLoop(_, _, _)
\* pix.themes = copy.deepcopy(theme_dict) for the pixels in order.
UpdateThemesLoop(w, refs, theme_dict) ==
    IF refs = <<>> THEN w
    ELSE UpdateThemesLoop(Pixel_set_themes(w, Head(refs), theme_dict), Tail(refs),
                          theme_dict)

\* PixelGrid.update_overall_theme(themes): every cell's Pixel gets a deep
\* copy of the ThemeDict as its themes.
PixelGrid_update_overall_theme(w, name, themes) ==
    UpdateThemesLoop(w, FlattenRows(w.grids[name].grid), themes)

\* PixelGrid.update_pixel_theme_area(themes, start, end) for an area inside
\* the grid: the same for the cells of rows start.y..end.y, columns
\* start.x..end.x.
PixelGrid_update_pixel_theme_area(w, name, themes, x0, y0, x1, y1) ==
    UpdateThemesLoop(w,
        FlattenRows([r \in 1..(y1 - y0 + 1) |->
                        [c \in 1..(x1 - x0 + 1) |-> w.grids[name].grid[y0 + r][x0 + c]]]),
        themes)

RECURSIVE JoinStr(_, _)
JoinStr(strs, sep) ==
    IF strs = <<>> THEN ""
    ELSE IF Len(strs) = 1 THEN strs[1]
    ELSE strs[1] \o sep \o JoinStr(Tail(strs), sep)

\* PixelGrid.to_string(): rows of printable strings joined by newlines.
PixelGrid_to_string(w, g) ==
    JoinStr([r \in DOMAIN g.grid |->
                JoinStr([c \in DOMAIN g.grid[r] |-> PrintableStr(w, g.grid[r][c])], "")],
            "\n")

\* A grid's cells by value.
Content(w, g) == [r \in DOMAIN g.grid |-> [c \in DOMAIN g.grid[r] |-> ValueOf(w, g.grid[r][c])]]

\* A grid's cells as rendered.
Rendered(w, g) ==
    [r \in DOMAIN g.grid |-> [c \in DOMAIN g.grid[r] |-> PrintableStr(w, g.grid[r][c])]]

----------------------------------------------------------------------------
(* The terminal device and the cursor module (system.utilities.cursor is   *)
(* not among the sources: clear_screen blanks the device and homes the     *)
(* cursor, set_pos(x, y) moves it, as the specification describes).        *)

TerminalRows == 1..2
TerminalCols == 1..MaxWidth

BlankTerminal == [r \in TerminalRows |-> [c \in TerminalCols |-> ""]]

Cmd(cmd, x, y, text) == [cmd |-> cmd, x |-> x, y |-> y, text |-> text]

\* cursor.clear_screen()
cursor_clear_screen(w) ==
    [w EXCEPT !.terminal = BlankTerminal, !.printed = Append(@, Cmd("clear", 0, 0, ""))]

\* cursor.set_pos(x, y)
cursor_set_pos(w, x, y) == [w EXCEPT !.printed = Append(@, Cmd("set_pos", x, y, ""))]

\* print(..., flush=True): the flush.
Flush(w) == [w EXCEPT !.printed = Append(@, Cmd("flush", 0, 0, ""))]

\* print(pixel.printable_str, end="") after set_pos(x, y): cell (x, y) shows it.
PrintPixel(w, x, y, p) ==
    [w EXCEPT !.terminal[y + 1][x + 1] = PrintableStr(w, p),
              !.printed = Append(@, Cmd("print", x, y, PrintableStr(w, p)))]

\* print(grid.to_string(), end="") from the home position: row r of the grid
\* lands on line r of the device.
PrintGrid(w, g) ==
    [w EXCEPT !.terminal = [r \in TerminalRows |-> [c \in TerminalCols |->
                                IF r \in DOMAIN g.grid /\ c \in DOMAIN g.grid[r]
                                THEN PrintableStr(w, g.grid[r][c]) ELSE @[r][c]]],
              !.printed = Append(@, Cmd("print", 0, 0, PixelGrid_to_string(w, g)))]

----------------------------------------------------------------------------
(* Display                                                                 *)

\* self._previous_pixel_grid = deepcopy(self._display_pixel_grid)
SnapshotPrevious(w) ==
    LET d == DeepCopyGrid(w, w.grids["display"])
    IN  [d.w EXCEPT !.grids = [n \in DOMAIN @ \cup {"previous"} |->
                                    IF n = "previous" THEN d.grid ELSE @[n]]]

\* Display.refresh_display
Display_refresh_display(w) ==
    SnapshotPrevious(Flush(PrintGrid(cursor_clear_screen(w), w.grids["display"])))

\* PixelGrid defines no __eq__: == between two PixelGrid objects is object
\* identity.  Every attribute of the model holds a PixelGrid object of its
\* own, so two attributes hold the same object only if they are the same.
PixelGridEq(a, b) == a = b

\* A loop body that prints the cell where the cursor already is (the run
\* buffering of the TODO in the loop): used to show what C10 rests on.
WriteCellUnpositioned(w, x, y, pixel) == PrintPixel(w, x, y, pixel)

\* The body of the loop for a changed cell: cursor.set_pos(x, y), then
\* print(pixel.printable_str, end="", flush=False).
WriteCell(w, x, y, pixel) == PrintPixel(cursor_set_pos(w, x, y), x, y, pixel)

RECURSIVE DiffCells(_, _, _)
\* The loop of anti_flash_refresh_display over the cells (row-major, cells a
\* sequence of <<x, y>>): a cell whose pixel != the previous grid's is
\* positioned and printed.
DiffCells(w, cells, prev) ==
    IF cells = <<>> THEN w
    ELSE LET x == Head(cells)[1]
             y == Head(cells)[2]
             pixel == w.grids["display"].grid[y + 1][x + 1]
         IN  DiffCells(IF PixelNe(w, pixel, prev.grid[y + 1][x + 1])
                       THEN WriteCell(w, x, y, pixel)
                       ELSE w,
                       Tail(cells), prev)

\* The cells of a grid in the order of `for y, row in enumerate(grid): for
\* x, pixel in enumerate(row)`.
CellsRowMajor(g) ==
    FlattenRows([r \in DOMAIN g.grid |-> [c \in DOMAIN g.grid[r] |-> <<c - 1, r - 1>>]])

\* Display.anti_flash_refresh_display
Display_anti_flash_refresh_display(w) ==
    LET cur  == w.grids["display"]
        prev == w.grids["previous"]
    IN  IF PixelGridEq("display", "previous") THEN w
        ELSE IF CoordinateNe(prev.size, cur.size) THEN Display_refresh_display(w)
        ELSE IF Len(cur.grid) # Len(prev.grid)
             THEN [w EXCEPT !.printed = Append(@, Cmd("print", 0, 0, "Display size mismatch."))]
        ELSE SnapshotPrevious(Flush(cursor_set_pos(DiffCells(w, CellsRowMajor(cur), prev), 0, 0)))

\* Display.__init__(display_grid): the display grid is a new PixelGrid of
\* display_grid's size whose default pixel is a deep copy of display_grid's;
\* the previous grid is a deep copy of it; then refresh_display().
Display_init(w, size, default_pixel) ==
    LET w1 == NewPixel(w, default_pixel)
        w2 == PixelGrid_init(w1, "display",
                             Coordinate(Axis(0, x_char(size)), Axis(0, y_char(size))),
                             size, LastPixel(w1))
    IN  Display_refresh_display(SnapshotPrevious(w2))

\* Display.display_array setter: the display grid becomes a deep copy of
\* the caller's grid (here a PixelGrid the caller has just constructed with
\* the given size and default pixel), then anti_flash_refresh_display().
Display_set_display_array(w, size, default_pixel) ==
    LET w1 == NewPixel(w, default_pixel)
        w2 == PixelGrid_init(w1, "new_display_array", Coordinate(Axis(0, 1), Axis(0, 1)),
                             size, LastPixel(w1))
        d  == DeepCopyGrid(w2, w2.grids["new_display_array"])
        w3 == [d.w EXCEPT !.grids = [n \in DOMAIN @ \ {"new_display_array"} |->
                                        IF n = "display" THEN d.grid ELSE @[n]]]
    IN  Display_anti_flash_refresh_display(w3)

\* Display.clear_display
Display_clear_display(w) == Display_refresh_display(PixelGrid_clear(w, "display"))

----------------------------------------------------------------------------
(* SpecDisplay: a Display, the calls a client makes on it, the terminal.   *)

EmptyWorld == [pixels |-> <<>>, theme_dicts |-> <<>>, grids |-> <<>>,
               terminal |-> BlankTerminal, printed |-> <<>>]

\* The world a call starts from: nothing written yet by this call.
Start == [World EXCEPT !.printed = <<>>]

NoEntry == [display |-> <<>>, previous |-> <<>>, same_size |-> FALSE]

\* What the Display's grids held when a refresh began.
DisplayEntry ==
    [display   |-> Content(World, grids["display"]),
     previous  |-> Content(World, grids["previous"]),
     same_size |-> CoordinateEq(grids["previous"].size, grids["display"].size)]

Outcome(op, raised) == [op |-> op, raised |-> raised]

\* Screen.__init__: no objects, no mouse cursor, not dirty.  An attribute
\* that is None or an object is a sequence of length 0 or 1.
NoScreen == [should_draw |-> FALSE, terminal_objects |-> <<>>, mouse |-> <<>>]

\* No Screen, no objects, no main loop: a client of the classes alone.
LibraryOnly ==
    /\ screen = NoScreen
    /\ objects = <<>>
    /\ inserted = <<>>
    /\ pc = "library"

\* The state after a call that ended in world w.
Commit(w, outcome, ent, n) ==
    LET c == Canon(w)
    IN  /\ pixels' = c.pixels
        /\ theme_dicts' = c.theme_dicts
        /\ grids' = c.grids
        /\ terminal' = c.terminal
        /\ printed' = c.printed
        /\ call' = outcome
        /\ entry' = ent
        /\ edits' = n
        /\ UNCHANGED <<screen, objects, inserted, pc>>
        /\ UNCHANGED value_objects
        /\ UNCHANGED standalone

\* Size of a grid as TerminalSystem builds it: Axis(value=n, axis_size=n).
ScreenSize(x, y) == Coordinate(Axis(x, x), Axis(y, y))
\* Size of a grid as Coordinate(Axis(x), Axis(y)) builds it: axis_size 1.
PlainSize(x, y) == Coordinate(Axis(x, 1), Axis(y, 1))

DisplaySizes == {ScreenSize(MaxWidth, 1), ScreenSize(2, 2)}
ArraySizes == DisplaySizes \cup {PlainSize(MaxWidth, 1)}

Blank == PixelValue(" ", ThemeDict(<<>>))
\* The pixels a client writes: a red "a" (its hovered theme is the fallback)
\* and an unthemed "b".
PixelInputs == {PixelValue("a", ThemeDict(DEFAULT :> <<Colors_RED>>)),
                PixelValue("b", ThemeDict(<<>>))}

InitDisplay ==
    \E size \in DisplaySizes :
        LET c == Canon(Display_init(EmptyWorld, size, Blank))
        IN  /\ pixels = c.pixels
            /\ theme_dicts = c.theme_dicts
            /\ grids = c.grids
            /\ terminal = c.terminal
            /\ printed = c.printed
            /\ call = Outcome("Display.__init__", "")
            /\ entry = NoEntry
            /\ edits = 0
            /\ LibraryOnly
            /\ NoValueObjects
            /\ NoStandalone

InDisplay(x, y) ==
    /\ y + 1 \in DOMAIN grids["display"].grid
    /\ x + 1 \in DOMAIN grids["display"].grid[y + 1]

\* display.display_array.change_pixel(v, Coordinate(Axis(x), Axis(y)))
DisplayChangePixel ==
    \E x \in 0..(MaxWidth - 1), y \in 0..1, v \in PixelInputs :
        /\ edits < MaxEdits
        /\ InDisplay(x, y)
        /\ Commit(PixelGrid_change_pixel(Start, "display", v, x, y),
                  Outcome("change_pixel", ""), NoEntry, edits + 1)

\* display.display_array.change_theme(t, Coordinate(Axis(x), Axis(y)))
DisplayChangeTheme ==
    \E x \in 0..(MaxWidth - 1), y \in 0..1, t \in ThemeTypes :
        /\ edits < MaxEdits
        /\ InDisplay(x, y)
        /\ Commit(PixelGrid_change_theme(Start, "display", t, x, y),
                  Outcome("change_theme", ""), NoEntry, edits + 1)

\* display.display_array = PixelGrid(Coordinate(), size, Pixel("#"))
DisplaySetArray ==
    \E size \in ArraySizes :
        /\ "display" \in DOMAIN grids
        /\ Commit(Display_set_display_array(Start, size, PixelValue("#", ThemeDict(<<>>))),
                  Outcome("display_array", ""), DisplayEntry, edits)

DisplayClear ==
    /\ "display" \in DOMAIN grids
    /\ Commit(Display_clear_display(Start), Outcome("clear_display", ""), DisplayEntry, edits)

DisplayRefresh ==
    /\ "display" \in DOMAIN grids
    /\ Commit(Display_refresh_display(Start), Outcome("refresh_display", ""), DisplayEntry, edits)

DisplayAntiFlash ==
    /\ "display" \in DOMAIN grids
    /\ Commit(Display_anti_flash_refresh_display(Start),
              Outcome("anti_flash_refresh_display", ""), DisplayEntry, edits)

NextDisplay ==
    \/ DisplayChangePixel
    \/ DisplayChangeTheme
    \/ DisplaySetArray
    \/ DisplayClear
    \/ DisplayRefresh
    \/ DisplayAntiFlash

SpecDisplay == InitDisplay /\ [][NextDisplay]_vars

----------------------------------------------------------------------------
(* Properties of the Display (checked under SpecDisplay).                  *)

RefreshOps == {"refresh_display", "anti_flash_refresh_display"}

\* C2: once refresh_display or anti_flash_refresh_display has completed, the
\* previous grid equals the current grid and, cell by cell, the rendered
\* string of the previous grid is the string last written to the terminal at
\* that cell -- also when the only change was a pixel's current theme state.
C2_PreviousIsWhatTheTerminalShows ==
    (call.op \in RefreshOps /\ call.raised = "") =>
        /\ Content(World, grids["previous"]) = Content(World, grids["display"])
        /\ \A r \in DOMAIN grids["previous"].grid :
             \A c \in DOMAIN grids["previous"].grid[r] :
                terminal[r][c] = PrintableStr(World, grids["previous"].grid[r][c])

\* C9: when anti_flash_refresh_display is called with a current grid whose
\* content equals the previous grid's (compared by content, not by object
\* identity), nothing is emitted: no write, no positioning, no flush.
C9_NoOutputWhenUnchanged ==
    (call.op = "anti_flash_refresh_display" /\ entry.same_size
        /\ entry.display = entry.previous) => printed = <<>>

\* The zero-based cells whose pixel != the previous grid's when the call began.
ChangedCells ==
    {xy \in (0..(MaxWidth - 1)) \X (0..1) :
        /\ xy[2] + 1 \in DOMAIN entry.display
        /\ xy[1] + 1 \in DOMAIN entry.display[xy[2] + 1]
        /\ PixelValueNe(entry.display[xy[2] + 1][xy[1] + 1],
                        entry.previous[xy[2] + 1][xy[1] + 1])}

\* The zero-based cells the call printed a pixel at.
WrittenCells ==
    {<<printed[i].x, printed[i].y>> : i \in {j \in DOMAIN printed : printed[j].cmd = "print"}}

\* C33: when the current and the previous grid have the same size, the
\* incremental refresh writes a cell to the terminal only if the cell's
\* pixel != the previous grid's pixel of that cell: no cell equal in both
\* is written.
C33_OnlyChangedCellsWritten ==
    (call.op = "anti_flash_refresh_display" /\ entry.same_size) =>
        WrittenCells \subseteq ChangedCells

\* C33 is exercised: an incremental refresh of grids of one size wrote a
\* changed cell and left an unchanged cell of the same row unwritten.
C33_ChangedCellWrittenUnchangedNot ==
    /\ call.op = "anti_flash_refresh_display"
    /\ entry.same_size
    /\ \E xy \in WrittenCells : \E x \in 0..(MaxWidth - 1) :
          /\ x + 1 \in DOMAIN entry.display[xy[2] + 1]
          /\ <<x, xy[2]>> \notin ChangedCells
          /\ <<x, xy[2]>> \notin WrittenCells

\* The cells x0 .. x0+k-1 of row y.
RunCells(x0, y, k) == {<<x0 + i, y>> : i \in 0..(k - 1)}

AllSpaces(content) ==
    \A r \in DOMAIN content : \A c \in DOMAIN content[r] : content[r][c] = Blank

\* anti_flash_refresh_display ran its diff on an all-space previous grid and a
\* current grid that differs from it in exactly the run of k cells at (x0, y).
SingleRunCase(x0, y, k) ==
    /\ call.op = "anti_flash_refresh_display"
    /\ entry.same_size
    /\ entry.display # <<>>
    /\ AllSpaces(entry.previous)
    /\ ChangedCells = RunCells(x0, y, k)

\* The writes of one positioning command and one print per cell of the run.
PerCellWrites(x0, y, k) ==
    [i \in 1..(2 * k) |->
        LET x == x0 + ((i - 1) \div 2)
        IN  IF i % 2 = 1 THEN Cmd("set_pos", x, y, "")
            ELSE Cmd("print", x, y, PrintableStrOf(entry.display[y + 1][x + 1]))]

----------------------------------------------------------------------------
(* PixelGrid.overlay                                                       *)

\* A Python tuple (x, y): it has no attributes x and y.
Tuple(x, y) == [kind |-> "tuple", x |-> x, y |-> y]

\* Coordinate.screen_size setter: the new value is stored, then its .x and
\* .y are handed to the two axes.  A value without these attributes raises
\* AttributeError after the store.
Coordinate_set_screen_size(c, new) ==
    IF new.kind = "Point"
    THEN [coordinate |-> [c EXCEPT !.screen_size = new,
                                   !.x_axis = Axis_set_screen_size(@, new.x),
                                   !.y_axis = Axis_set_screen_size(@, new.y)],
          raised |-> ""]
    ELSE [coordinate |-> [c EXCEPT !.screen_size = new], raised |-> "AttributeError"]

\* The loop of overlay.  `for x, pix in row` unpacks each Pixel of the row
\* into two names; iterating a Pixel yields the characters of its char, one
\* character for every pixel of this model, so the first cell met raises
\* ValueError.  A source without cells is walked without effect.
OverlayLoop(w, self, other) ==
    IF \E r \in DOMAIN w.grids[other].grid : w.grids[other].grid[r] # <<>>
    THEN [w |-> w, raised |-> "ValueError", ret |-> "None"]
    ELSE [w |-> w, raised |-> "", ret |-> "False"]

\* PixelGrid.overlay(other): the source's size is told the destination's
\* extent as a tuple, then the loop runs.
PixelGrid_overlay(w, self, other) ==
    LET s  == Coordinate_set_screen_size(
                  w.grids[other].size,
                  Tuple(x_char(w.grids[self].size), y_char(w.grids[self].size)))
        w1 == [w EXCEPT !.grids[other].size = s.coordinate]
    IN  IF s.raised # "" THEN [w |-> w1, raised |-> s.raised, ret |-> "None"]
        ELSE OverlayLoop(w1, self, other)

----------------------------------------------------------------------------
(* SpecGrid: a destination grid `self`, a source grid `other` placed at an *)
(* offset, and the calls a client makes on them.                           *)

\* Width of the source grid (one row).
SourceWidth == 2

\* Offsets of the source: from fully left of the destination to fully right
\* of it, on the destination's row or below it.
OffsetsX == (0 - SourceWidth)..MaxWidth
OffsetsY == 0..1

Returned(op, raised, ret) == [op |-> op, raised |-> raised, ret |-> ret]

\* The outcome of an edit of the cell (x, y).
Edited(op, x, y) == [op |-> op, raised |-> "", ret |-> "None", x |-> x, y |-> y]

NoGridEntry == [self |-> <<>>, other |-> <<>>, overlaid |-> FALSE, edited |-> FALSE,
                default_pixel |-> Blank]

\* What the two grids held when a call began, and the value of self's
\* default_pixel; overlaid: overlay has been called on them before; edited:
\* so has a call other than fill, overlay and clear.
GridEntry ==
    [self     |-> Content(World, grids["self"]),
     other    |-> Content(World, grids["other"]),
     overlaid |-> entry.overlaid \/ call.op = "overlay",
     edited   |-> entry.edited
                  \/ call.op \notin {"PixelGrid.__init__", "fill", "overlay", "clear"},
     default_pixel |-> ValueOf(World, grids["self"].default_pixel)]

\* self = PixelGrid(Coordinate(), size); other = PixelGrid(offset, size2)
\* with the default default_pixel (the one Pixel() object of the signature,
\* shared by every grid built so), or with a Pixel of its own.
InitGrid ==
    \E ox \in OffsetsX, oy \in OffsetsY, shared \in BOOLEAN :
        LET w0 == NewPixel(EmptyWorld, Blank)
            w1 == PixelGrid_init(w0, "self", PlainSize(0, 0), PlainSize(MaxWidth, 1), 1)
            w2 == IF shared THEN w1 ELSE NewPixel(w1, Blank)
            w3 == PixelGrid_init(w2, "other", PlainSize(ox, oy), PlainSize(SourceWidth, 1),
                                 IF shared THEN 1 ELSE LastPixel(w2))
            c  == Canon(w3)
        IN  /\ pixels = c.pixels
            /\ theme_dicts = c.theme_dicts
            /\ grids = c.grids
            /\ terminal = c.terminal
            /\ printed = c.printed
            /\ call = Returned("PixelGrid.__init__", "", "None")
            /\ entry = NoGridEntry
            /\ edits = 0
            /\ LibraryOnly
            /\ NoValueObjects
            /\ NoStandalone

\* g.change_pixel(v, Coordinate(Axis(x), Axis(0))) on either grid
GridChangePixel ==
    \E name \in {"self", "other"}, x \in 0..(MaxWidth - 1), v \in PixelInputs :
        /\ edits < MaxEdits
        /\ x < Width(grids[name])
        /\ Commit(PixelGrid_change_pixel(Start, name, v, x, 0),
                  Returned("change_pixel", "", "None"), GridEntry, edits + 1)

\* The outcome of fill(fill_pixel).
Filled(v) == [op |-> "fill", raised |-> "", ret |-> "None", fill_pixel |-> v]

\* self.fill(Pixel(...)): the argument is an object of the caller's.
GridFill ==
    \E v \in PixelInputs :
        /\ edits < MaxEdits
        /\ LET w1 == NewPixel(Start, v)
           IN  Commit(PixelGrid_fill(w1, "self", LastPixel(w1)),
                      Filled(v), GridEntry, edits + 1)

\* The mappings a client hands to the theme updates: {DEFAULT: red} and
\* {HOVERED: red}.
ThemeMappings == {DEFAULT :> <<Colors_RED>>, HOVERED :> <<Colors_RED>>}

\* The outcome of a theme update of the cells with the states listed.
ThemeUpdate(op, x, y, cells, listed) ==
    [op |-> op, raised |-> "", ret |-> "None", x |-> x, y |-> y,
     cells |-> cells, listed |-> listed]

\* self.change_theme(t, Coordinate(Axis(x), Axis(0)))
GridChangeTheme ==
    \E x \in 0..(MaxWidth - 1), t \in ThemeTypes :
        /\ edits < MaxEdits
        /\ x < Width(grids["self"])
        /\ Commit(PixelGrid_change_theme(Start, "self", t, x, 0),
                  Edited("change_theme", x, 0), GridEntry, edits + 1)

\* self.update_theme(themes, Coordinate(Axis(x), Axis(0))), themes a dict
GridUpdateTheme ==
    \E x \in 0..(MaxWidth - 1), themes \in ThemeMappings :
        /\ edits < MaxEdits
        /\ x < Width(grids["self"])
        /\ Commit(PixelGrid_update_theme(Start, "self", ThemeDict(themes), x, 0),
                  ThemeUpdate("update_theme", x, 0, {<<x, 0>>}, DOMAIN themes),
                  GridEntry, edits + 1)

\* self.clear()
GridClear ==
    /\ "self" \in DOMAIN grids
    /\ Commit(PixelGrid_clear(Start, "self"), Returned("clear", "", "None"), GridEntry, edits)

\* self.overlay(other)
GridOverlay ==
    /\ {"self", "other"} \subseteq DOMAIN grids
    /\ LET r == PixelGrid_overlay(Start, "self", "other")
       IN  Commit(r.w, Returned("overlay", r.raised, r.ret), GridEntry, edits)

\* seq[i] as Python indexes a list of n elements: the one-based position, or
\* <<>> where IndexError is raised.  -n..-1 count from the end.
ListIndex(n, i) ==
    IF 0 <= i /\ i < n THEN <<i + 1>>
    ELSE IF 0 - n <= i /\ i < 0 THEN <<n + i + 1>>
    ELSE <<>>

\* self._grid[y][x]: <<row, column>>, one-based, or <<>> on IndexError.
CellAt(g, x, y) ==
    LET row == ListIndex(Len(g.grid), y)
    IN  IF row = <<>> THEN <<>>
        ELSE LET column == ListIndex(Len(g.grid[row[1]]), x)
             IN  IF column = <<>> THEN <<>> ELSE <<row[1], column[1]>>

\* PixelGrid.__getitem__(key): the Pixel found, or the exception.
PixelGrid_getitem(w, name, x, y) ==
    LET at == CellAt(w.grids[name], x, y)
    IN  IF at = <<>> THEN [w |-> w, raised |-> "IndexError", ret |-> <<>>]
        ELSE [w |-> w, raised |-> "",
              ret |-> <<w.grids[name].grid[at[1]][at[2]]>>]

\* PixelGrid.__setitem__(key, value): the cell refers to value itself.
PixelGrid_setitem(w, name, value, x, y) ==
    LET at == CellAt(w.grids[name], x, y)
    IN  IF at = <<>> THEN [w |-> w, raised |-> "IndexError", ret |-> <<>>]
        ELSE [w |-> [w EXCEPT !.grids[name].grid[at[1]][at[2]] = value],
              raised |-> "", ret |-> <<>>]

\* PixelGrid.change_pixel(new_pixel, coordinates) for any coordinates: the
\* deep copy is made, then the cell is looked up and assigned.
PixelGrid_change_pixel_at(w, name, v, x, y) ==
    LET w1 == NewPixel(w, v)
    IN  PixelGrid_setitem(w1, name, LastPixel(w1), x, y)

\* PixelGrid.change_theme(theme_name, coordinates) for any coordinates.
PixelGrid_change_theme_at(w, name, theme, x, y) ==
    LET found == PixelGrid_getitem(w, name, x, y)
    IN  IF found.raised # "" THEN found
        ELSE [found EXCEPT !.w = Pixel_change_theme(w, found.ret[1], theme),
                           !.ret = <<>>]

\* The coordinates tried: outside self in one dimension, just below zero,
\* just past the end, and one row or column further down.
OutsideCoordinates ==
    {<<0 - 1, 0>>, <<MaxWidth, 0>>, <<0 - (MaxWidth + 1), 0>>,
     <<0, 0 - 1>>, <<0, 1>>, <<0, 0 - 2>>}
Outside(x, y) ==
    ~(0 <= x /\ x < Width(grids["self"]) /\ 0 <= y /\ y < Height(grids["self"]))

\* The outcome of a call given coordinates outside the grid.
Accessed(method, raised, x, y) ==
    [op |-> "outside", method |-> method, raised |-> raised, ret |-> "None",
     x |-> x, y |-> y]

\* self[Coordinate(Axis(x), Axis(y))]
GridGetItemOutside ==
    \E at \in OutsideCoordinates : \E x \in {at[1]}, y \in {at[2]} :
        /\ edits < MaxEdits
        /\ Outside(x, y)
        /\ \E r \in {PixelGrid_getitem(Start, "self", x, y)} :
            Commit(r.w, Accessed("__getitem__", r.raised, x, y), GridEntry,
                   edits + 1)

\* self[Coordinate(Axis(x), Axis(y))] = Pixel(...)
GridSetItemOutside ==
    \E at \in OutsideCoordinates : \E x \in {at[1]}, y \in {at[2]}, v \in PixelInputs :
        /\ edits < MaxEdits
        /\ Outside(x, y)
        /\ \E w1 \in {NewPixel(Start, v)} :
            \E r \in {PixelGrid_setitem(w1, "self", LastPixel(w1), x, y)} :
                Commit(r.w, Accessed("__setitem__", r.raised, x, y), GridEntry,
                       edits + 1)

\* self.change_pixel(Pixel(...), Coordinate(Axis(x), Axis(y)))
GridChangePixelOutside ==
    \E at \in OutsideCoordinates : \E x \in {at[1]}, y \in {at[2]}, v \in PixelInputs :
        /\ edits < MaxEdits
        /\ Outside(x, y)
        /\ \E r \in {PixelGrid_change_pixel_at(Start, "self", v, x, y)} :
            Commit(r.w, Accessed("change_pixel", r.raised, x, y), GridEntry,
                   edits + 1)

\* self.change_theme(t, Coordinate(Axis(x), Axis(y)))
GridChangeThemeOutside ==
    \E at \in OutsideCoordinates : \E x \in {at[1]}, y \in {at[2]}, t \in ThemeTypes :
        /\ edits < MaxEdits
        /\ Outside(x, y)
        /\ \E r \in {PixelGrid_change_theme_at(Start, "self", t, x, y)} :
            Commit(r.w, Accessed("change_theme", r.raised, x, y), GridEntry,
                   edits + 1)

NextGrid ==
    \/ GridChangePixel
    \/ GridChangeTheme
    \/ GridUpdateTheme
    \/ GridFill
    \/ GridClear
    \/ GridOverlay
    \/ GridGetItemOutside
    \/ GridSetItemOutside
    \/ GridChangePixelOutside
    \/ GridChangeThemeOutside

SpecGrid == InitGrid /\ [][NextGrid]_vars

\* C24: a cell access (grid[coord], grid[coord] = p, change_pixel,
\* change_theme) with a coordinate outside [0, size) in either dimension,
\* negative ones included, signals an error and leaves every cell of the
\* grid unchanged.
C24_OutsideAccessRaisesAndKeepsCells ==
    call.op = "outside" =>
        /\ call.raised # ""
        /\ Content(World, grids["self"]) = entry.self

----------------------------------------------------------------------------
(* Properties of PixelGrid.overlay (checked under SpecGrid).               *)

\* The source's offset, in cells.
OffsetX == x_char(grids["other"].coordinates)
OffsetY == y_char(grids["other"].coordinates)

\* Destination cell (row r, column c), one-based, is covered by a source cell.
Covered(r, c) ==
    /\ r - OffsetY \in DOMAIN entry.other
    /\ c - OffsetX \in DOMAIN entry.other[r - OffsetY]

\* The destination an overlay is to produce from the grids it was called on.
OverlaidContent ==
    [r \in DOMAIN entry.self |-> [c \in DOMAIN entry.self[r] |->
        IF Covered(r, c) THEN entry.other[r - OffsetY][c - OffsetX] ELSE entry.self[r][c]]]

\* No source cell falls inside the destination.
FullyOutside ==
    \A r \in DOMAIN entry.self : \A c \in DOMAIN entry.self[r] : ~Covered(r, c)

\* Some covered destination cell rendered differently from its source cell
\* when the call began.
SomeCellDiffers ==
    \E r \in DOMAIN entry.self : \E c \in DOMAIN entry.self[r] :
        /\ Covered(r, c)
        /\ PrintableStrOf(entry.self[r][c])
              # PrintableStrOf(entry.other[r - OffsetY][c - OffsetX])

\* C3: overlay writes every source cell (x, y) whose target (x + ox, y + oy)
\* lies in the destination to that target and leaves every other destination
\* cell unchanged (a two-cell source at x = 1 on a three-cell row fills the
\* cells 1 and 2 and leaves cell 0).
C3_OverlayWritesCoveredCells ==
    call.op = "overlay" => Content(World, grids["self"]) = OverlaidContent

\* C4: overlay raises no error whatever the offset, and a source that lies
\* fully outside the destination leaves it unchanged and returns false.
C4_OverlayNeverRaises ==
    call.op = "overlay" =>
        /\ call.raised = ""
        /\ FullyOutside => (Content(World, grids["self"]) = entry.self /\ call.ret = "False")

\* C5: overlay returns true exactly when some in-range destination cell's
\* rendered string differed from the source cell written over it.
C5_OverlayReturnsWhetherChanged ==
    call.op = "overlay" => (call.ret = "True" <=> SomeCellDiffers)

\* C6: overlay changes no source cell, and the destination owns its cells
\* afterwards: a later clear, fill or overlay on the destination leaves the
\* source's cells unchanged.
C6_DestinationOwnsItsCells ==
    /\ call.op = "overlay" => Content(World, grids["other"]) = entry.other
    /\ (entry.overlaid /\ call.op \in {"clear", "fill", "overlay"})
            => Content(World, grids["other"]) = entry.other

\* C17: after a PixelGrid is constructed, an edit of the theme of one cell
\* (change_theme or update_theme at a coordinate) changes the rendered form
\* of that cell only: every other cell of the grid and the grid's
\* default_pixel render as they did before the edit.
C17_ThemeEditChangesOneCell ==
    call.op \in {"change_theme", "update_theme"} =>
        /\ \A r \in DOMAIN grids["self"].grid : \A c \in DOMAIN grids["self"].grid[r] :
               <<c - 1, r - 1>> # <<call.x, call.y>> =>
                   PrintableStr(World, grids["self"].grid[r][c])
                       = PrintableStrOf(entry.self[r][c])
        /\ PrintableStr(World, grids["self"].default_pixel)
               = PrintableStrOf(entry.default_pixel)

\* C28: after fill(p) every cell of the grid equals p, and after clear()
\* every cell equals the default pixel the grid was constructed with,
\* whatever fill and overlay calls came before.
C28_ClearRestoresConfiguredDefault ==
    /\ call.op = "fill" =>
        \A r \in DOMAIN grids["self"].grid : \A col \in DOMAIN grids["self"].grid[r] :
            ValueOf(World, grids["self"].grid[r][col]) = call.fill_pixel
    /\ (call.op = "clear" /\ ~entry.edited) =>
        \A r \in DOMAIN grids["self"].grid : \A col \in DOMAIN grids["self"].grid[r] :
            ValueOf(World, grids["self"].grid[r][col]) = Blank

\* C29: after self.overlay(other) the axes of other's position and of
\* other's size refer to self's extent (x_char, y_char), and the copy lands
\* at other's position in char units.
C29_OverlaySetsSourceExtents ==
    call.op = "overlay" =>
        /\ call.raised = ""
        /\ \A c \in {grids["other"].coordinates, grids["other"].size} :
            /\ c.x_axis.axis_size = x_char(grids["self"].size)
            /\ c.y_axis.axis_size = y_char(grids["self"].size)
        /\ Content(World, grids["self"]) = OverlaidContent

----------------------------------------------------------------------------
(* SpecGridThemes: a client that only edits themes of the grid self.       *)

\* self.update_overall_theme(themes), themes a dict
GridUpdateOverallTheme ==
    \E themes \in ThemeMappings :
        /\ edits < MaxEdits
        /\ Commit(PixelGrid_update_overall_theme(Start, "self", ThemeDict(themes)),
                  ThemeUpdate("update_overall_theme", 0, 0,
                              {<<x, 0>> : x \in 0..(Width(grids["self"]) - 1)},
                              DOMAIN themes),
                  GridEntry, edits + 1)

\* self.update_pixel_theme_area(themes, Coordinate(Axis(x0), Axis(0)),
\* Coordinate(Axis(x1), Axis(0))), themes a dict
GridUpdatePixelThemeArea ==
    \E x0 \in 0..(MaxWidth - 1), x1 \in 0..(MaxWidth - 1), themes \in ThemeMappings :
        /\ edits < MaxEdits
        /\ x0 <= x1
        /\ x1 < Width(grids["self"])
        /\ Commit(PixelGrid_update_pixel_theme_area(Start, "self", ThemeDict(themes),
                                                    x0, 0, x1, 0),
                  ThemeUpdate("update_pixel_theme_area", x0, 0,
                              {<<x, 0>> : x \in x0..x1}, DOMAIN themes),
                  GridEntry, edits + 1)

NextGridThemes ==
    \/ GridChangeTheme
    \/ GridUpdateTheme
    \/ GridUpdateOverallTheme
    \/ GridUpdatePixelThemeArea

SpecGridThemes == InitGrid /\ [][NextGridThemes]_vars

\* C40: update_overall_theme, update_theme and update_pixel_theme_area
\* change only the theme states listed in the mapping: every affected
\* pixel has the themes of the unlisted states, and the current theme
\* state, it had before the call.
C40_ThemeUpdateKeepsUnlistedStates ==
    call.op \in {"update_overall_theme", "update_theme", "update_pixel_theme_area"} =>
        \A cell \in call.cells :
            LET now    == ThemesOf(World, grids["self"].grid[cell[2] + 1][cell[1] + 1])
                before == entry.self[cell[2] + 1][cell[1] + 1].themes
            IN  /\ now.current = before.current
                /\ \A t \in ThemeTypes \ call.listed : now.themes[t] = before.themes[t]

----------------------------------------------------------------------------
(* BaseObject, Screen, DisplayManager.  A BaseObject is [z_index, visible, *)
(* should_draw, mouse_over]; its grid is grids[name].  Screen.mouse is    *)
(* None until set_up_mouse is called: the frame loop of Spec runs without  *)
(* a cursor, the one of SpecMouse with one.                                *)

\* Largest z_index given to an object.
MaxZ == 2
ZIndexes == 0..MaxZ

ObjectNames == {"obj1", "obj2", "obj3"}

\* BaseObject.__init__: should_draw starts True, mouse_over None (<<>>; a
\* Point is <<x, y>>).
BaseObject(z_index, visible) ==
    [z_index |-> z_index, visible |-> visible, should_draw |-> TRUE,
     mouse_over |-> <<>>]

\* BaseObject.z_index setter: the value is stored and the object is dirty;
\* the Screen's list is not touched.
BaseObject_set_z_index(obj, value) == [obj EXCEPT !.z_index = value, !.should_draw = TRUE]

RECURSIVE InsertByZ(_, _, _)
\* o placed behind every element of the sorted list whose key is <= its own.
InsertByZ(sorted, o, objs) ==
    IF sorted = <<>> THEN <<o>>
    ELSE IF objs[Head(sorted)].z_index <= objs[o].z_index
         THEN <<Head(sorted)>> \o InsertByZ(Tail(sorted), o, objs)
         ELSE <<o>> \o sorted

RECURSIVE SortByZ(_, _)
\* list.sort(key=lambda x: x.z_index): stable, elements of equal key keep
\* the order they have in the list.
SortByZ(list, objs) ==
    IF list = <<>> THEN <<>>
    ELSE InsertByZ(SortByZ(SubSeq(list, 1, Len(list) - 1), objs), list[Len(list)], objs)

Remove(list, o) == SelectSeq(list, LAMBDA e : e # o)

\* Screen.add_object: append, sort by z_index, should_draw = obj.visible.
Screen_add_object(scr, objs, o) ==
    [scr EXCEPT !.terminal_objects = SortByZ(Append(@, o), objs),
                !.should_draw = objs[o].visible]

\* Screen.remove_object: should_draw = obj.visible, then the object is removed.
Screen_remove_object(scr, objs, o) ==
    [scr EXCEPT !.should_draw = objs[o].visible,
                !.terminal_objects = Remove(@, o)]

\* Screen.update after _handle_mouse (which does nothing without a mouse):
\* each object is updated -- BaseObject.update returns should_draw and
\* changes nothing -- and a dirty object makes the Screen dirty.
Screen_update(scr, objs) ==
    [scr EXCEPT !.should_draw =
        @ \/ \E i \in DOMAIN scr.terminal_objects : objs[scr.terminal_objects[i]].should_draw]

RECURSIVE RefreshLoop(_, _, _, _)
\* The loop of Screen._refresh over terminal_objects: overlay the object's
\* grid, clear its should_draw.  An overlay that raises ends the loop.
\* composed: the objects overlay was called on, in order.
RefreshLoop(w, list, objs, composed) ==
    IF list = <<>> THEN [w |-> w, objects |-> objs, raised |-> "", composed |-> composed]
    ELSE LET r == PixelGrid_overlay(w, "screen", Head(list))
         IN  IF r.raised # ""
             THEN [w |-> r.w, objects |-> objs, raised |-> r.raised,
                   composed |-> Append(composed, Head(list))]
             ELSE RefreshLoop(r.w, Tail(list),
                              [objs EXCEPT ![Head(list)].should_draw = FALSE],
                              Append(composed, Head(list)))

\* Screen._refresh
Screen_refresh(w, scr, objs) ==
    LET r == RefreshLoop(PixelGrid_clear(w, "screen"), scr.terminal_objects, objs, <<>>)
    IN  [w |-> r.w, objects |-> r.objects, raised |-> r.raised, composed |-> r.composed,
         screen |-> IF r.raised = "" THEN [scr EXCEPT !.should_draw = FALSE] ELSE scr]

\* Screen.draw
Screen_draw(w, scr, objs) ==
    IF scr.should_draw THEN Screen_refresh(w, scr, objs)
    ELSE [w |-> w, objects |-> objs, raised |-> "", composed |-> <<>>, screen |-> scr]

\* DisplayManager.refresh_screen: the current screen draws, then the Display
\* refreshes from its own grid.
DisplayManager_refresh_screen(w, scr, objs) ==
    LET d == Screen_draw(w, scr, objs)
    IN  IF d.raised # "" THEN d
        ELSE [d EXCEPT !.w = Display_anti_flash_refresh_display(d.w)]

----------------------------------------------------------------------------
(* Spec: the program.  TerminalSystem builds the DisplayManager (and its   *)
(* Display) on the initial grid, the client builds a Screen on a deep copy *)
(* of that grid and objects with grids of their own, then the main loop    *)
(* runs update(), the client's code, refresh_screen().  An exception that  *)
(* leaves refresh_screen ends the program.                                 *)

\* The column each object's one-cell grid is placed at (obj1 and obj2 overlap).
ObjectColumn == [obj1 |-> 0, obj2 |-> 0, obj3 |-> 1]
ObjectChar == [obj1 |-> "1", obj2 |-> "2", obj3 |-> "3"]

\* The client's grid for an object: PixelGrid(Coordinate(Axis(col), Axis(0)),
\* Coordinate(Axis(1), Axis(1)), Pixel(char)).
WithObjectGrid(w, name) ==
    LET w1 == NewPixel(w, PixelValue(ObjectChar[name], ThemeDict(<<>>)))
    IN  PixelGrid_init(w1, name, PlainSize(ObjectColumn[name], 0), PlainSize(1, 1),
                       LastPixel(w1))

\* Screen(name, deepcopy(initial grid)): a grid of the display's size whose
\* cells are one Pixel of its own.
WithScreenGrid(w) ==
    LET w1 == NewPixel(w, Blank)
    IN  PixelGrid_init(w1, "screen", Coordinate(Axis(0, MaxWidth), Axis(0, 1)),
                       ScreenSize(MaxWidth, 1), LastPixel(w1))

Frame(op, raised, composed) == [op |-> op, raised |-> raised, composed |-> composed]

\* The objects on the Screen.
OnScreen == {screen.terminal_objects[i] : i \in DOMAIN screen.terminal_objects}

\* What held when update or refresh_screen began.
FrameEntry ==
    [should_draw |-> screen.should_draw,
     dirty       |-> \E o \in OnScreen : objects[o].should_draw,
     updated     |-> pc = "updated"]

NoFrameEntry == [should_draw |-> FALSE, dirty |-> FALSE, updated |-> FALSE]

Init ==
    LET w0 == Display_init(EmptyWorld, ScreenSize(MaxWidth, 1), Blank)
        w1 == WithScreenGrid(w0)
        w2 == WithObjectGrid(WithObjectGrid(WithObjectGrid(w1, "obj1"), "obj2"), "obj3")
        c  == Canon(w2)
    IN  /\ pixels = c.pixels
        /\ theme_dicts = c.theme_dicts
        /\ grids = c.grids
        /\ terminal = c.terminal
        /\ printed = c.printed
        /\ call = Frame("DisplayManager.__init__", "", <<>>)
        /\ entry = NoFrameEntry
        /\ edits = 0
        /\ screen = NoScreen
        /\ objects = [o \in {} |-> BaseObject(0, TRUE)]
        /\ inserted = <<>>
        /\ pc = "loop"
        /\ axes = <<>>
        /\ pixel_theme = <<>>
        /\ cursor_visible = FALSE
        /\ NoStandalone

Running == pc \in {"loop", "updated"}

\* The state after a call of the client's on the Screen or an object.
ClientCall(op, scr, objs, ins) ==
    /\ call' = Frame(op, "", <<>>)
    /\ entry' = NoFrameEntry
    /\ screen' = scr
    /\ objects' = objs
    /\ inserted' = ins
    /\ UNCHANGED <<pixels, theme_dicts, grids, terminal, printed, edits, pc>>
    /\ UNCHANGED value_objects
    /\ UNCHANGED standalone

\* screen.add_object(BaseObject(name, "", grid, z, visible))
AddObject ==
    \E o \in ObjectNames \ DOMAIN objects, z \in ZIndexes, visible \in BOOLEAN :
        /\ Running
        /\ LET objs == [n \in DOMAIN objects \cup {o} |->
                            IF n = o THEN BaseObject(z, visible) ELSE objects[n]]
           IN  ClientCall("add_object", Screen_add_object(screen, objs, o), objs,
                          Append(inserted, o))

\* screen.remove_object(obj); the client drops the object.
RemoveObject ==
    \E o \in OnScreen :
        /\ Running
        /\ ClientCall("remove_object", Screen_remove_object(screen, objects, o),
                      [n \in DOMAIN objects \ {o} |-> objects[n]], Remove(inserted, o))

\* obj.z_index = z
SetZIndex ==
    \E o \in DOMAIN objects, z \in ZIndexes :
        /\ Running
        /\ ClientCall("z_index", screen,
                      [objects EXCEPT ![o] = BaseObject_set_z_index(@, z)], inserted)

\* obj.visible = not obj.visible
SetVisible ==
    \E o \in DOMAIN objects :
        /\ Running
        /\ ClientCall("visible", screen, [objects EXCEPT ![o].visible = ~@], inserted)

\* TerminalSystem.update -> DisplayManager.update -> Screen.update
Update ==
    /\ pc = "loop"
    /\ call' = Frame("update", "", <<>>)
    /\ entry' = FrameEntry
    /\ screen' = Screen_update(screen, objects)
    /\ pc' = "updated"
    /\ UNCHANGED <<pixels, theme_dicts, grids, terminal, printed, edits, objects, inserted>>
    /\ UNCHANGED value_objects
    /\ UNCHANGED standalone

\* TerminalSystem.refresh_screen -> DisplayManager.refresh_screen
RefreshScreen ==
    /\ pc = "updated"
    /\ \E r \in {DisplayManager_refresh_screen(Start, screen, objects)} :
       LET c == Canon(r.w)
       IN  /\ pixels' = c.pixels
           /\ theme_dicts' = c.theme_dicts
           /\ grids' = c.grids
           /\ terminal' = c.terminal
           /\ printed' = c.printed
           /\ call' = Frame("refresh_screen", r.raised, r.composed)
           /\ entry' = FrameEntry
           /\ screen' = r.screen
           /\ objects' = r.objects
           /\ pc' = IF r.raised = "" THEN "loop" ELSE "crashed"
           /\ UNCHANGED <<edits, inserted>>
           /\ UNCHANGED value_objects
           /\ UNCHANGED standalone

Next ==
    \/ AddObject
    \/ RemoveObject
    \/ SetZIndex
    \/ SetVisible
    \/ Update
    \/ RefreshScreen

Spec == Init /\ [][Next]_vars

----------------------------------------------------------------------------
(* Properties of the frame loop (checked under Spec).                      *)

\* C30: a pending redraw is never lost: once the Screen's should_draw is
\* true it stays true through every add_object, remove_object and update,
\* until a refresh runs.
C30_PendingRedrawIsKept ==
    [][(screen.should_draw /\ call'.op # "refresh_screen")
            => screen'.should_draw]_vars

\* Screen._refresh run once and run twice on the present Screen.
RefreshedOnce == Screen_refresh(World, screen, objects)
RefreshedTwice ==
    Screen_refresh(RefreshedOnce.w, RefreshedOnce.screen, RefreshedOnce.objects)

\* C27: recomposition is idempotent: _refresh run twice with no change in
\* between composes the same screen grid as _refresh run once, and leaves
\* every object's own grid as it was before the first run.
C27_RefreshIsIdempotent ==
    Running =>
        /\ RefreshedOnce.raised = ""
        /\ RefreshedTwice.raised = ""
        /\ Content(RefreshedTwice.w, RefreshedTwice.w.grids["screen"])
            = Content(RefreshedOnce.w, RefreshedOnce.w.grids["screen"])
        /\ \A o \in OnScreen : RefreshedTwice.w.grids[o] = grids[o]

\* C1: in every frame where update and then refresh_screen run on a Screen
\* with at least one dirty object, refresh_screen completes with the Screen
\* recomposed and the Display's current grid cell for cell equal to the
\* Screen's screen_grid.
C1_DisplayShowsComposedScreen ==
    (call.op = "refresh_screen" /\ entry.updated /\ entry.dirty) =>
        /\ call.raised = ""
        /\ ~screen.should_draw
        /\ Content(World, grids["display"]) = Content(World, grids["screen"])

\* The objects on the Screen in ascending z_index, ties in insertion order.
ZOrder == SortByZ(inserted, objects)

IsPrefix(s, t) == Len(s) <= Len(t) /\ s = SubSeq(t, 1, Len(s))

\* C7: whenever the Screen recomposes, the objects it overlays, in the order
\* it overlays them, are the objects in ascending z_index with ties in
\* insertion order, whatever add_object, remove_object and z_index
\* assignments came before (a recomposition cut short overlays the first
\* objects of that order).
C7_OverlaysInZOrder ==
    (call.op = "refresh_screen" /\ entry.should_draw) => IsPrefix(call.composed, ZOrder)

\* Some cell of the Screen's grid holds the object's pixel.
Contributes(o) ==
    \E r \in DOMAIN grids["screen"].grid : \E c \in DOMAIN grids["screen"].grid[r] :
        ValueOf(World, grids["screen"].grid[r][c]).char = ObjectChar[o]

\* C8: an object whose visible flag is false contributes no pixel to the
\* Screen's grid, and update makes the Screen dirty only if the Screen holds
\* a visible dirty object.
C8_InvisibleObjectsAreInert ==
    /\ \A o \in OnScreen : ~objects[o].visible => ~Contributes(o)
    /\ (call.op = "update" /\ screen.should_draw /\ ~entry.should_draw)
            => \E o \in OnScreen : objects[o].visible /\ objects[o].should_draw

----------------------------------------------------------------------------
(* Bounds of SpecAxis.                                                      *)

\* Assignments made to the axes in one run.
MaxAssignments == 2
\* Largest value given to an axis, and largest reference extent.
MaxAxisValue == 2
MaxAxisSize == 2
(* SpecAxis: a client assigning to a Coordinate's axes.                    *)

AxisValues == {Whole(v) : v \in 0..MaxAxisValue}
AxisSizes == 1..MaxAxisSize
\* The extents a client assigns afterwards: 0 as well.
AssignedSizes == 0..MaxAxisSize

Assigned(op, ax, new) == [op |-> op, axis |-> ax, new |-> new]

\* No grids, no terminal, no Screen: the value objects alone.
ValueObjectsOnly ==
    /\ pixels = <<>>
    /\ theme_dicts = <<>>
    /\ grids = <<>>
    /\ terminal = BlankTerminal
    /\ printed = <<>>
    /\ LibraryOnly

InitAxis ==
    \E vx \in AxisValues, vy \in AxisValues, ux \in UnitNames, uy \in UnitNames,
       sx \in AxisSizes, sy \in AxisSizes :
        /\ axes = Coordinate(Axis_init(vx, ux, sx), Axis_init(vy, uy, sy))
        /\ pixel_theme = <<>>
        /\ cursor_visible = TRUE
        /\ NoStandalone
        /\ call = Assigned("Coordinate.__init__", "", Whole(0))
        /\ entry = <<>>
        /\ edits = 0
        /\ ValueObjectsOnly

\* The state after an assignment that left the Coordinate as c.
CommitAxis(c, outcome) ==
    /\ axes' = c
    /\ call' = outcome
    /\ entry' = axes
    /\ edits' = edits + 1
    /\ UNCHANGED <<pixels, theme_dicts, grids, terminal, printed,
                   screen, objects, inserted, pc, pixel_theme, cursor_visible, standalone>>

\* coordinate.x_axis.value = v
AxisSetValue ==
    \E ax \in AxisNames, v \in AxisValues :
        /\ edits < MaxAssignments
        /\ CommitAxis([axes EXCEPT ![ax] = Axis_set_value(@, v)],
                      Assigned("value", ax, v))

\* coordinate.x_char = c
AxisSetCharValue ==
    \E ax \in AxisNames, c \in AxisValues :
        /\ edits < MaxAssignments
        /\ CommitAxis(Coordinate_set_char(axes, ax, c), Assigned("char_value", ax, c))

\* coordinate.x_percent = p
AxisSetPercentValue ==
    \E ax \in AxisNames, p \in AxisValues :
        /\ edits < MaxAssignments
        /\ CommitAxis(Coordinate_set_percent(axes, ax, p),
                      Assigned("percent_value", ax, p))

\* coordinate.x_axis.screen_size = s
AxisSetScreenSize ==
    \E ax \in AxisNames, s \in AssignedSizes :
        /\ edits < MaxAssignments
        /\ CommitAxis([axes EXCEPT ![ax] = Axis_set_screen_size(@, s)],
                      Assigned("screen_size", ax, Whole(s)))

NextAxis ==
    \/ AxisSetValue
    \/ AxisSetCharValue
    \/ AxisSetPercentValue
    \/ AxisSetScreenSize

SpecAxis == InitAxis /\ [][NextAxis]_vars

\* C11: for an Axis of either unit with a reference extent above zero, after
\* construction and after any sequence of assignments to value, char_value,
\* percent_value and screen_size, char_value equals percent_value times the
\* reference extent.
C11_CharIsPercentTimesExtent ==
    \A ax \in AxisNames :
        axes[ax].axis_size > 0 =>
            axes[ax].char_value =
                Times(axes[ax].percent_value, Whole(axes[ax].axis_size))

\* The axis the last assignment went to, and as it was before.
AssigneeBefore == entry[call.axis]
\* C36: screen_size := s on a CHAR axis leaves value and char_value as they
\* were and makes percent_value value / s (0 when s is 0); on a PERCENT axis
\* it leaves value and percent_value as they were and makes char_value
\* value * s.
C36_ExtentAssignmentRecomputesOtherView ==
    call.op = "screen_size" =>
        /\ axes[call.axis].value = AssigneeBefore.value
        /\ axes[call.axis].axis_size = call.new.n
        /\ IF AssigneeBefore.unit = UnitNames_CHAR
           THEN /\ axes[call.axis].char_value = AssigneeBefore.char_value
                /\ axes[call.axis].percent_value =
                      IF call.new.n = 0 THEN Whole(0)
                      ELSE TrueDiv(AssigneeBefore.value, call.new)
           ELSE /\ axes[call.axis].percent_value = AssigneeBefore.percent_value
                /\ axes[call.axis].char_value = Times(AssigneeBefore.value, call.new)

\* C36 is exercised: a CHAR axis with a value above zero was given another
\* extent, which changed its percent_value.
C36_ExtentChangedPercentView ==
    /\ call.op = "screen_size"
    /\ AssigneeBefore.unit = UnitNames_CHAR
    /\ AssigneeBefore.value.n > 0
    /\ AssigneeBefore.axis_size # axes[call.axis].axis_size
    /\ axes[call.axis].percent_value # AssigneeBefore.percent_value

\* The axis the last assignment went to.
Assignee == axes[call.axis]
Extent == Whole(Assignee.axis_size)

\* C12: after char_value := c the axis reads char_value c and percent_value
\* c / extent; after percent_value := p it reads percent_value p and
\* char_value p * extent; after value := v both readings are recomputed from
\* v in the axis's unit; Coordinate's x_char, y_char, x_percent and y_percent
\* read the same.
C12_AssignmentRecomputesReadings ==
    /\ call.op = "char_value" =>
          /\ Assignee.char_value = call.new
          /\ Assignee.percent_value = TrueDiv(call.new, Extent)
          /\ Coordinate_get_char(axes, call.axis) = int(call.new)
          /\ Coordinate_get_percent(axes, call.axis) = TrueDiv(call.new, Extent)
    /\ call.op = "percent_value" =>
          /\ Assignee.percent_value = call.new
          /\ Assignee.char_value = Times(call.new, Extent)
          /\ Coordinate_get_percent(axes, call.axis) = call.new
          /\ Coordinate_get_char(axes, call.axis) = int(Times(call.new, Extent))
    /\ call.op = "value" =>
          /\ Assignee.value = call.new
          /\ Assignee.char_value =
                IF Assignee.unit = UnitNames_CHAR THEN call.new ELSE Times(call.new, Extent)
          /\ Assignee.percent_value =
                IF Assignee.unit = UnitNames_PERCENT THEN call.new
                ELSE TrueDiv(call.new, Extent)

----------------------------------------------------------------------------
(* PixelTheme as an object: [color_list, buckets, str_value].  The buckets *)
(* are the four reduced fields (_foreground_color, _background_color,      *)
(* _style_colors, _other_colors).                                          *)

\* Longest raw colour list of a theme.
MaxColors == 3
\* Mutating calls made on the theme in one run.
MaxMutations == 2

\* PixelTheme.color_scheme setter: the list is stored, _list_to_theme runs
\* over it on the buckets as they are, the string is cached.
PixelTheme_set_color_scheme(t, value) ==
    LET b == ListToTheme(t.buckets, value)
    IN  [color_list |-> value, buckets |-> b, str_value |-> ToStr(b)]

\* PixelTheme.__init__
PixelTheme_init(color_list) ==
    PixelTheme_set_color_scheme(
        [color_list |-> color_list, buckets |-> EmptyBuckets, str_value |-> ""],
        color_list)

\* PixelTheme.add_colors
PixelTheme_add_colors(t, colors) ==
    LET t1 == [t EXCEPT !.color_list = @ \o colors]
    IN  PixelTheme_set_color_scheme(t1, t1.color_list)

\* PixelTheme.__iadd__
PixelTheme_iadd(t, other) ==
    PixelTheme_set_color_scheme(t, t.color_list \o other.color_list)

----------------------------------------------------------------------------
(* SpecTheme: a client building and mutating one PixelTheme.               *)

ThemeColors == {Colors_END, Colors_RED, Colors_BACKGROUND_BLACK, Colors_BOLD}

RECURSIVE ColorLists(_)
\* The colour lists of at most n colours.
ColorLists(n) ==
    IF n = 0 THEN {<<>>}
    ELSE LET shorter == ColorLists(n - 1)
         IN  shorter \cup {Append(l, c) : l \in shorter, c \in ThemeColors}

AllColorLists == ColorLists(MaxColors)

ThemeCall(op, arg) == [op |-> op, arg |-> arg]

InitTheme ==
    \E color_list \in AllColorLists :
        /\ pixel_theme = PixelTheme_init(color_list)
        /\ axes = <<>>
        /\ cursor_visible = TRUE
        /\ NoStandalone
        /\ call = ThemeCall("PixelTheme", color_list)
        /\ entry = <<>>
        /\ edits = 0
        /\ ValueObjectsOnly

\* The state after a call that left the client's theme as t.
CommitTheme(t, outcome, n) ==
    /\ pixel_theme' = t
    /\ call' = outcome
    /\ entry' = <<>>
    /\ edits' = n
    /\ UNCHANGED <<pixels, theme_dicts, grids, terminal, printed,
                   screen, objects, inserted, pc, axes, cursor_visible, standalone>>

\* theme = PixelTheme(color_list)
ThemeConstruct ==
    \E color_list \in AllColorLists :
        /\ edits < MaxMutations
        /\ CommitTheme(PixelTheme_init(color_list), ThemeCall("PixelTheme", color_list),
                       edits + 1)

\* theme.color_scheme = value
ThemeSetColorScheme ==
    \E value \in AllColorLists :
        /\ edits < MaxMutations
        /\ CommitTheme(PixelTheme_set_color_scheme(pixel_theme, value),
                       ThemeCall("color_scheme", value), edits + 1)

\* theme.add_colors(colors)
ThemeAddColors ==
    \E colors \in ColorLists(MaxColors - Len(pixel_theme.color_list)) :
        /\ edits < MaxMutations
        /\ CommitTheme(PixelTheme_add_colors(pixel_theme, colors),
                       ThemeCall("add_colors", colors), edits + 1)

\* theme += PixelTheme(colors)
ThemeIAdd ==
    \E colors \in ColorLists(MaxColors - Len(pixel_theme.color_list)) :
        /\ edits < MaxMutations
        /\ CommitTheme(PixelTheme_iadd(pixel_theme, PixelTheme_init(colors)),
                       ThemeCall("__iadd__", colors), edits + 1)

NextTheme ==
    \/ ThemeConstruct
    \/ ThemeSetColorScheme
    \/ ThemeAddColors
    \/ ThemeIAdd

SpecTheme == InitTheme /\ [][NextTheme]_vars

\* C13: after any sequence of color_scheme assignments, add_colors calls and
\* += on a PixelTheme, its foreground, background, style list, other list and
\* string are those of a PixelTheme freshly constructed from its raw colour
\* list.
C13_ReducedStateDependsOnListOnly ==
    LET fresh == PixelTheme_init(pixel_theme.color_list)
    IN  /\ pixel_theme.buckets = fresh.buckets
        /\ pixel_theme.str_value = fresh.str_value

\* The positions of a reset colour in a list.
ResetPositions(color_list) ==
    {i \in DOMAIN color_list : color_list[i].color = Colors_END.color}

\* C14: a PixelTheme built from a list with a reset colour at position i has
\* the foreground, background, style list, other list and string of the
\* PixelTheme built from the list without the colours before position i.
C14_ResetDropsEarlierColors ==
    call.op = "PixelTheme" =>
        \A i \in ResetPositions(call.arg) :
            LET cut == PixelTheme_init(SubSeq(call.arg, i, Len(call.arg)))
            IN  /\ pixel_theme.buckets = cut.buckets
                /\ pixel_theme.str_value = cut.str_value

\* A theme was built from a list whose reset follows a foreground colour and
\* a style: the colours before the reset would show if they were kept.
C14_ResetAfterColorsBuilt ==
    /\ call.op = "PixelTheme"
    /\ call.arg = <<Colors_RED, Colors_BOLD, Colors_END>>
    /\ pixel_theme.buckets = [EmptyBuckets EXCEPT !.other = <<Colors_END>>]

----------------------------------------------------------------------------
(* Pixel equality (checked under SpecDisplay, on every two Pixel objects   *)
(* the Display's grids hold).                                              *)

\* The PixelTheme a pixel value renders with: themes[current_theme_type].
ResolvedTheme(v) == v.themes.themes[v.themes.current]

\* C15: two Pixels are equal exactly when they have the same character and
\* the same resolved theme, the theme their current state selects; Pixels
\* with the same character whose current states select different themes are
\* unequal even when their ThemeDict entries are identical.
C15_PixelsEqualByResolvedTheme ==
    \A p \in DOMAIN pixels : \A q \in DOMAIN pixels :
        PixelEq(World, p, q) <=>
            /\ pixels[p].char = pixels[q].char
            /\ ResolvedTheme(ValueOf(World, p)) = ResolvedTheme(ValueOf(World, q))

----------------------------------------------------------------------------
(* Size and grid assignment of a PixelGrid, and Text, the PixelGrid that   *)
(* lays a string out in its cells.  A Text is a grid record with three     *)
(* more fields: text (the characters of its FormattedText, one chunk, no   *)
(* word wrap, the default cutoff ending "..."), text_pixels (the Pixels of *)
(* the last layout, by value) and should_draw.                             *)

\* Longest text given to a Text.
MaxText == 3
\* Largest width and height of a Text.
MaxTextSize == 2

\* PixelGrid.size setter (Text.size is the same and sets should_draw, see
\* Text_set_size): the size is stored and the cell array rebuilt from the
\* default pixel.
PixelGrid_set_size(w, name, new_size) ==
    [w EXCEPT !.grids[name].size = new_size,
              !.grids[name].grid =
                  [r \in 1..y_char(new_size) |->
                      [c \in 1..x_char(new_size) |-> w.grids[name].default_pixel]]]

\* PixelGrid.grid setter: the rows are stored, then the size's x_char is
\* assigned the length of the first row and its y_char the number of rows.
PixelGrid_set_grid(w, name, new_grid) ==
    LET w1 == [w EXCEPT !.grids[name].grid = new_grid]
    IN  IF new_grid = <<>> THEN [w |-> w1, raised |-> "IndexError"]
        ELSE [w |-> [w1 EXCEPT !.grids[name].size =
                        Coordinate_set_char(
                            Coordinate_set_char(@, "x_axis", Whole(Len(new_grid[1]))),
                            "y_axis", Whole(Len(new_grid)))],
              raised |-> ""]

RECURSIVE NewPixels(_, _, _)
\* One new Pixel per character, in order: [w, refs].
NewPixels(w, chars, refs) ==
    IF chars = <<>> THEN [w |-> w, refs |-> refs]
    ELSE LET w1 == NewPixel(w, PixelValue(Head(chars), ThemeDict(<<>>)))
         IN  NewPixels(w1, Tail(chars), Append(refs, LastPixel(w1)))

\* Text._get_text_pixel_list
Text_get_text_pixel_list(w, name) == NewPixels(w, w.grids[name].text, <<>>)

\* The characters of FormattedText's default cutoff_ending, [["...", ThemeDict()]].
CutoffEnding == <<".", ".", ".">>

\* Text._get_text_pixel_grid, the branch taken when the rows outnumber the
\* size's y_char: the rows are cut to y_char rows, the last row is cut to
\* x_char + len(cutoff_ending[0]) cells (a chunk is a pair) and the cutoff
\* ending is appended to it.
Text_cutoff(w, text_pixel_grid, size) ==
    LET rows  == SubSeq(text_pixel_grid, 1, y_char(size))
        keep  == x_char(size) + 2
        cut   == IF rows = <<>> THEN rows
                 ELSE [rows EXCEPT ![Len(rows)] =
                          IF Len(@) > keep THEN SubSeq(@, 1, keep) ELSE @]
        dots  == NewPixels(w, CutoffEnding, <<>>)
    IN  IF x_char(size) < 1 THEN [w |-> w, grid |-> cut, raised |-> ""]
        ELSE IF cut = <<>> THEN [w |-> dots.w, grid |-> cut, raised |-> "IndexError"]
        ELSE [w |-> dots.w, grid |-> [cut EXCEPT ![Len(cut)] = @ \o dots.refs],
              raised |-> ""]

RECURSIVE TextGridLoop(_, _, _, _)
\* The loop of Text._get_text_pixel_grid over the text's pixels.
TextGridLoop(w, text_pixels, text_pixel_grid, size) ==
    IF text_pixels = <<>> THEN [w |-> w, grid |-> text_pixel_grid, raised |-> ""]
    ELSE LET pix == Head(text_pixels)
         IN  IF w.pixels[pix].char = "\n"
             THEN TextGridLoop(w, Tail(text_pixels), Append(text_pixel_grid, <<>>), size)
             ELSE LET g1 == IF Len(text_pixel_grid[Len(text_pixel_grid)]) >= x_char(size)
                            THEN Append(text_pixel_grid, <<>>)
                            ELSE text_pixel_grid
                      g2 == [g1 EXCEPT ![Len(g1)] = Append(@, pix)]
                  IN  IF Len(g2) > y_char(size)
                      THEN Text_cutoff(w, g2, size)
                      ELSE TextGridLoop(w, Tail(text_pixels), g2, size)

\* Text._get_text_pixel_grid
Text_get_text_pixel_grid(w, name) ==
    LET l == Text_get_text_pixel_list(w, name)
    IN  TextGridLoop(l.w, l.refs, <<<<>>>>, w.grids[name].size)

\* word_breakers of Text._get_text_pixel_grid_word_wrap ("ESC" is the
\* escape character).
word_breakers ==
    {"\n", "ESC", " ", "-", ":", ";", ",", ".", ">", "<", "/", "\\", "|", "=", "+", "*"}

\* word[:n] and word[n:] for n >= 0.
Take(word, n) == SubSeq(word, 1, IF n < Len(word) THEN n ELSE Len(word))
Drop(word, n) == SubSeq(word, n + 1, Len(word))

RECURSIVE WordChunks(_, _, _, _)
\* for i in range((len(word) // x_char) + 1):
\*     text_pixel_grid.append(word[i * x_char:(i + 1) * x_char])
WordChunks(text_pixel_grid, word, x, i) ==
    IF i > Len(word) \div x THEN text_pixel_grid
    ELSE WordChunks(Append(text_pixel_grid, Take(Drop(word, i * x), x)), word, x, i + 1)

\* Whether len(word) // x_char is evaluated with x_char = 0 at a word
\* breaker (ZeroDivisionError).
WordWrapDividesByZero(text_pixel_grid, word, x) ==
    x = 0 /\ Len(word) > x

\* Text._get_text_pixel_grid_word_wrap, the branch taken at a word breaker:
\* the word gathered so far is put into the rows.
WordWrapBreak(text_pixel_grid, word, x) ==
    LET last == text_pixel_grid[Len(text_pixel_grid)]
    IN  IF Len(word) + Len(last) > x
        THEN IF Len(word) > x
             THEN IF Len(last) = 0
                  THEN WordChunks(Append(text_pixel_grid, Take(word, x)),
                                  Drop(word, x), x, 0)
                  \* the new row takes word[:x]; the slice that is meant to
                  \* drop it starts at x - len(that row), which is 0
                  ELSE WordChunks(Append(text_pixel_grid, Take(word, x)),
                                  Drop(word, x - Len(Take(word, x))), x, 0)
             ELSE Append(text_pixel_grid, word)
        ELSE [text_pixel_grid EXCEPT ![Len(text_pixel_grid)] = @ \o word]

RECURSIVE WordWrapLoop(_, _, _, _, _)
\* The loop of Text._get_text_pixel_grid_word_wrap over the text's pixels.
WordWrapLoop(w, text_pixels, text_pixel_grid, word, size) ==
    IF text_pixels = <<>> THEN [w |-> w, grid |-> text_pixel_grid, raised |-> ""]
    ELSE LET pix == Head(text_pixels)
             breaker == w.pixels[pix].char \in word_breakers
             g1 == IF breaker THEN WordWrapBreak(text_pixel_grid, word, x_char(size))
                   ELSE text_pixel_grid
             word1 == IF breaker THEN <<>> ELSE word
         IN  IF breaker /\ WordWrapDividesByZero(text_pixel_grid, word, x_char(size))
             THEN [w |-> w, grid |-> text_pixel_grid, raised |-> "ZeroDivisionError"]
             ELSE IF w.pixels[pix].char = "\n"
             THEN WordWrapLoop(w, Tail(text_pixels), Append(g1, <<>>), word1, size)
             ELSE IF Len(g1) > y_char(size)
                  THEN Text_cutoff(w, g1, size)
                  ELSE WordWrapLoop(w, Tail(text_pixels), g1, Append(word1, pix), size)

\* Text._get_text_pixel_grid_word_wrap
Text_get_text_pixel_grid_word_wrap(w, name) ==
    LET l == Text_get_text_pixel_list(w, name)
    IN  WordWrapLoop(l.w, l.refs, <<<<>>>>, <<>>, w.grids[name].size)

\* The grid laid out from the text, by words if the text's wrap_words is
\* set, and assigned through the grid setter.
Text_layout(w, name) ==
    LET g == IF w.grids[name].wrap_words
             THEN Text_get_text_pixel_grid_word_wrap(w, name)
             ELSE Text_get_text_pixel_grid(w, name)
    IN  IF g.raised # "" THEN [w |-> g.w, raised |-> g.raised]
        ELSE PixelGrid_set_grid(g.w, name, g.grid)

\* The Pixels of a text by value.
TextPixelValues(chars) == [i \in DOMAIN chars |-> PixelValue(chars[i], ThemeDict(<<>>))]

\* Text.__init__(coordinates, size, text, default_pixel), the text being
\* FormattedText([[chars, ThemeDict()]], wrap_words=wrap_words)
Text_init(w, name, coordinates, size, chars, wrap_words, default_pixel) ==
    LET w1 == PixelGrid_init(w, name, coordinates, size, default_pixel)
        w2 == [w1 EXCEPT !.grids[name] =
                  @ @@ [text |-> chars, wrap_words |-> wrap_words,
                        text_pixels |-> TextPixelValues(chars),
                        should_draw |-> FALSE]]
        r  == Text_layout(w2, name)
    IN  [w |-> [r.w EXCEPT !.grids[name].should_draw = (r.raised = "")],
         raised |-> r.raised]

\* Text.size setter
Text_set_size(w, name, new_size) ==
    [PixelGrid_set_size(w, name, new_size) EXCEPT !.grids[name].should_draw = TRUE]

\* Text.text setter
Text_set_text(w, name, chars, wrap_words) ==
    [w EXCEPT !.grids[name].text = chars, !.grids[name].wrap_words = wrap_words,
              !.grids[name].should_draw = TRUE]

\* Text.update_text
Text_update_text(w, name) ==
    IF ~w.grids[name].should_draw THEN [w |-> w, raised |-> "", ret |-> FALSE]
    ELSE LET w1 == [w EXCEPT !.grids[name].should_draw = FALSE]
             pixel_list == TextPixelValues(w.grids[name].text)
         IN  IF w1.grids[name].text_pixels # pixel_list
             THEN LET r == Text_layout(
                              [w1 EXCEPT !.grids[name].text_pixels = pixel_list], name)
                  IN  [w |-> r.w, raised |-> r.raised, ret |-> TRUE]
             ELSE [w |-> w1, raised |-> "", ret |-> TRUE]

----------------------------------------------------------------------------
(* SpecText: a client of one Text.                                         *)

TextChars == {"a", " ", "\n"}

RECURSIVE Texts(_)
\* The texts of at most n characters.
Texts(n) ==
    IF n = 0 THEN {<<>>}
    ELSE LET shorter == Texts(n - 1)
         IN  shorter \cup {Append(t, ch) : t \in shorter, ch \in TextChars}

AllTexts == Texts(MaxText)
TextSizes == {PlainSize(x, y) : x \in 1..MaxTextSize, y \in 1..MaxTextSize}

\* What a layout started from: the size the Text had, and whether the
\* layout ran.
TextEntry(size, laid_out) == [size |-> size, laid_out |-> laid_out]

InitText ==
    \E size \in TextSizes, chars \in AllTexts, wrap_words \in BOOLEAN :
        LET w0 == NewPixel(EmptyWorld, Blank)
            c  == Canon(Text_init(w0, "text", PlainSize(0, 0), size, chars,
                                  wrap_words, 1).w)
        IN  /\ pixels = c.pixels
            /\ theme_dicts = c.theme_dicts
            /\ grids = c.grids
            /\ terminal = c.terminal
            /\ printed = c.printed
            /\ call = Returned("Text.__init__", "", "None")
            /\ entry = TextEntry(size, TRUE)
            /\ edits = 0
            /\ LibraryOnly
            /\ NoValueObjects
            /\ NoStandalone

\* text.text = FormattedText([[chars, ThemeDict()]], wrap_words=wrap_words);
\* text.update_text()
TextUpdateText ==
    \E chars \in AllTexts, wrap_words \in BOOLEAN :
        /\ edits < MaxEdits
        /\ \E r \in {Text_update_text(
                         Text_set_text(Start, "text", chars, wrap_words), "text")} :
               Commit(r.w, Returned("update_text", r.raised, r.ret),
                      TextEntry(Start.grids["text"].size,
                                Start.grids["text"].text_pixels # TextPixelValues(chars)),
                      edits + 1)

\* text.size = size
TextSetSize ==
    \E size \in TextSizes :
        /\ edits < MaxEdits
        /\ Commit(Text_set_size(Start, "text", size), Returned("size", "", "None"),
                  <<>>, edits + 1)

\* text.fill(Pixel(...))
TextFill ==
    \E v \in PixelInputs :
        /\ edits < MaxEdits
        /\ LET w1 == NewPixel(Start, v)
           IN  Commit(PixelGrid_fill(w1, "text", LastPixel(w1)),
                      Returned("fill", "", "None"), <<>>, edits + 1)

\* text.clear()
TextClear ==
    /\ edits < MaxEdits
    /\ Commit(PixelGrid_clear(Start, "text"), Returned("clear", "", "None"), <<>>,
              edits + 1)

NextText ==
    \/ TextUpdateText
    \/ TextSetSize
    \/ TextFill
    \/ TextClear

SpecText == InitText /\ [][NextText]_vars

\* C16: after construction and after any completed operation (size
\* assignment, grid assignment, clear, fill, update_text) a PixelGrid's cell
\* array has exactly size.y_char rows, each of exactly size.x_char cells.
C16_CellArrayMatchesSize ==
    call.raised = "" =>
        \A name \in DOMAIN grids :
            /\ Len(grids[name].grid) = y_char(grids[name].size)
            /\ \A r \in DOMAIN grids[name].grid :
                   Len(grids[name].grid[r]) = x_char(grids[name].size)

\* The text's lines: its characters broken at the newlines.
RECURSIVE TextLines(_, _)
TextLines(chars, line) ==
    IF chars = <<>> THEN <<line>>
    ELSE IF Head(chars) = "\n" THEN <<line>> \o TextLines(Tail(chars), <<>>)
    ELSE TextLines(Tail(chars), Append(line, Head(chars)))

\* The text needs no wrapping and no cutting in a grid of that size.
ContentFits(chars, size) ==
    LET lines == TextLines(chars, <<>>)
    IN  /\ Len(lines) <= y_char(size)
        /\ \A i \in DOMAIN lines : Len(lines[i]) <= x_char(size)

\* A layout of the Text's text has just completed.
LaidOut ==
    /\ call.op \in {"Text.__init__", "update_text"}
    /\ call.raised = ""
    /\ entry.laid_out

\* The characters of the Text's cells, row after row.
LaidOutChars ==
    [i \in DOMAIN FlattenRows(grids["text"].grid) |->
        pixels[FlattenRows(grids["text"].grid)[i]].char]

\* C38: a grid laid out by Text, in hard-wrap or word-wrap mode, has at
\* most y_char rows of at most x_char pixels each (size being the Text's
\* size when the layout started), a row ending with the cutoff marker
\* included; when the content fits, the grid holds every character of the
\* text that is not a newline, in order.
C38_LayoutStaysWithinSize ==
    LaidOut =>
        /\ Len(grids["text"].grid) <= y_char(entry.size)
        /\ \A r \in DOMAIN grids["text"].grid :
               Len(grids["text"].grid[r]) <= x_char(entry.size)
        /\ ContentFits(grids["text"].text, entry.size) =>
               LaidOutChars = FlattenRows(TextLines(grids["text"].text, <<>>))

----------------------------------------------------------------------------
(* The mouse.  DisplayManager.set_up_mouse gives the current Screen a      *)
(* CursorObject; Screen.update then runs _handle_mouse before it updates   *)
(* the objects.  A char position is <<x, y>>, None is <<>>.                *)

\* Hit tests (Screen.update with a cursor, container.mouse_over = ...) in one run.
MaxHitTests == 2

\* CursorObject(cursor): a BaseObject built visible; it is not one of the
\* Screen's terminal_objects, so nothing clears its should_draw.
CursorObject == [visible |-> TRUE, should_draw |-> TRUE, coordinates |-> <<>>]

\* DisplayManager.set_up_mouse
DisplayManager_set_up_mouse(scr) == [scr EXCEPT !.mouse = <<CursorObject>>]

\* InputHandler.get_inputs: one entry per input class when the window is
\* focused (the mouse's holds char_position), the empty mapping when not.
InputHandler_get_inputs(focused, char_position) ==
    IF focused THEN [mouse |-> [char_position |-> char_position]] ELSE <<>>

\* The attributes a Coordinate and a PixelGrid have (their properties).
CoordinateAttributes ==
    {"screen_size", "x_axis", "y_axis", "x_char", "y_char", "x_percent", "y_percent"}
PixelGridAttributes ==
    {"coordinates", "size", "default_pixel", "grid", "screen_size", "overall_themes"}

RECURSIVE Screen_get_object_by_coordinates(_, _, _)
\* Screen.get_object_by_coordinates over the list: the first object whose
\* rows hold coordinates[0] and whose columns hold coordinates[1].  Reading
\* an attribute the object does not have raises AttributeError.
Screen_get_object_by_coordinates(list, gs, coordinates) ==
    IF list = <<>> THEN [ret |-> <<>>, raised |-> ""]
    ELSE LET g == gs[Head(list)]
         IN  IF \/ {"char_y", "char_x"} \ CoordinateAttributes # {}
                \/ {"height", "width"} \ PixelGridAttributes # {}
             THEN [ret |-> <<>>, raised |-> "AttributeError"]
             ELSE IF /\ y_char(g.coordinates) <= coordinates[1]
                     /\ coordinates[1] < y_char(g.coordinates) + Height(g)
                     /\ x_char(g.coordinates) <= coordinates[2]
                     /\ coordinates[2] < x_char(g.coordinates) + Width(g)
                  THEN [ret |-> <<Head(list)>>, raised |-> ""]
                  ELSE Screen_get_object_by_coordinates(Tail(list), gs, coordinates)

\* Screen._handle_mouse
Screen_handle_mouse(scr, objs, gs, inputs) ==
    IF scr.mouse = <<>> THEN [screen |-> scr, objects |-> objs, raised |-> ""]
    ELSE LET s1 == [scr EXCEPT !.should_draw = @ \/ scr.mouse[1].should_draw]
         IN  IF "mouse" \notin DOMAIN inputs
             THEN [screen |-> s1, objects |-> objs, raised |-> "KeyError"]
             ELSE LET cursor_pos == inputs.mouse.char_position
                      s2 == IF cursor_pos # <<>>
                            THEN [s1 EXCEPT !.mouse[1].coordinates = cursor_pos,
                                            !.mouse[1].visible = TRUE]
                            ELSE [s1 EXCEPT !.mouse[1].visible = FALSE]
                      h  == Screen_get_object_by_coordinates(s2.terminal_objects, gs,
                                                             cursor_pos)
                  IN  IF h.raised # ""
                      THEN [screen |-> s2, objects |-> objs, raised |-> h.raised]
                      ELSE IF h.ret = <<>>
                      THEN [screen |-> s2, objects |-> objs, raised |-> ""]
                      ELSE LET c == gs[h.ret[1]].coordinates
                           IN  [screen |-> s2, raised |-> "",
                                objects |-> [objs EXCEPT ![h.ret[1]].mouse_over =
                                    <<cursor_pos[1] - y_char(c), cursor_pos[2] - x_char(c)>>]]

\* Screen.update(input_handler): the mouse, then the objects.
Screen_update_inputs(scr, objs, gs, inputs) ==
    LET m == Screen_handle_mouse(scr, objs, gs, inputs)
    IN  IF m.raised # "" THEN m
        ELSE [m EXCEPT !.screen = Screen_update(m.screen, m.objects)]

\* Rect(left, top, right, bottom)
Rect(left, top, right, bottom) ==
    [left |-> left, top |-> top, right |-> right, bottom |-> bottom]

\* Rect.inside: both ends of both ranges belong to the rectangle.
Rect_inside(r, x, y) == r.left <= x /\ x <= r.right /\ r.top <= y /\ y <= r.bottom

RECURSIVE ContainerHoverLoop(_, _, _, _, _)
\* The loop of the ContainerObject.mouse_over setter for a Point: hovered_obj
\* is never assigned after it is set to False.
ContainerHoverLoop(list, objs, gs, value, hovered_obj) ==
    IF list = <<>> THEN objs
    ELSE LET o == Head(list)
             g == gs[o]
             obj_rect == Rect(x_char(g.coordinates), y_char(g.coordinates),
                              x_char(g.coordinates) + x_char(g.size),
                              y_char(g.coordinates) + y_char(g.size))
             objs1 == IF ~hovered_obj /\ objs[o].visible /\ Height(g) > 0
                      THEN IF Rect_inside(obj_rect, value[1], value[2])
                           THEN [objs EXCEPT ![o].mouse_over = value]
                           ELSE objs
                      ELSE [objs EXCEPT ![o].mouse_over = <<>>]
         IN  ContainerHoverLoop(Tail(list), objs1, gs, value, hovered_obj)

\* ContainerObject.mouse_over setter: the children are sorted by z_index;
\* None is handed to every child, a Point goes through the loop.
ContainerObject_set_mouse_over(children, objs, gs, value) ==
    LET sorted == SortByZ(children, objs)
    IN  [children |-> sorted,
         objects  |-> IF value = <<>>
                      THEN [o \in DOMAIN objs |->
                              IF \E i \in DOMAIN sorted : sorted[i] = o
                              THEN [objs[o] EXCEPT !.mouse_over = <<>>] ELSE objs[o]]
                      ELSE ContainerHoverLoop(sorted, objs, gs, value, FALSE)]

----------------------------------------------------------------------------
(* SpecMouse: the client of Spec after display_manager.set_up_mouse.  It   *)
(* puts objects on the Screen, shows and hides them, and runs update() on  *)
(* what the InputHandler returns; it also keeps the objects in a           *)
(* ContainerObject (container.objects = the same list) whose mouse_over it *)
(* assigns.  An exception that leaves update ends the program.             *)

\* Where the mouse can be: a cell of the one-row display.
CharPositions == {<<x, 0>> : x \in 0..(MaxWidth - 1)}

HitTest(op, raised, focused, position) ==
    [op |-> op, raised |-> raised, focused |-> focused, position |-> position]

\* mouse_over of every object when the hit test began.
HitEntry == [o \in DOMAIN objects |-> objects[o].mouse_over]

InitMouse ==
    LET w0 == Display_init(EmptyWorld, ScreenSize(MaxWidth, 1), Blank)
        w1 == WithScreenGrid(w0)
        w2 == WithObjectGrid(WithObjectGrid(WithObjectGrid(w1, "obj1"), "obj2"), "obj3")
        c  == Canon(w2)
    IN  /\ pixels = c.pixels
        /\ theme_dicts = c.theme_dicts
        /\ grids = c.grids
        /\ terminal = c.terminal
        /\ printed = c.printed
        /\ call = HitTest("set_up_mouse", "", TRUE, <<>>)
        /\ entry = <<>>
        /\ edits = 0
        /\ screen = DisplayManager_set_up_mouse(NoScreen)
        /\ objects = [o \in {} |-> BaseObject(0, TRUE)]
        /\ inserted = <<>>
        /\ pc = "loop"
        /\ axes = <<>>
        /\ pixel_theme = <<>>
        /\ cursor_visible = FALSE
        /\ NoStandalone

\* The state after a call that tests the mouse against the objects.
CommitHitTest(outcome, scr, objs) ==
    /\ call' = outcome
    /\ entry' = HitEntry
    /\ edits' = edits + 1
    /\ screen' = scr
    /\ objects' = objs
    /\ pc' = IF outcome.raised = "" THEN pc ELSE "crashed"
    /\ UNCHANGED <<pixels, theme_dicts, grids, terminal, printed, inserted>>
    /\ UNCHANGED value_objects
    /\ UNCHANGED standalone

\* screen.add_object(BaseObject(name, "", grid, z, visible))
MouseAddObject ==
    \E o \in ObjectNames \ DOMAIN objects, z \in ZIndexes, visible \in BOOLEAN :
        /\ Running
        /\ LET objs == [n \in DOMAIN objects \cup {o} |->
                            IF n = o THEN BaseObject(z, visible) ELSE objects[n]]
           IN  /\ call' = HitTest("add_object", "", TRUE, <<>>)
               /\ entry' = <<>>
               /\ screen' = Screen_add_object(screen, objs, o)
               /\ objects' = objs
               /\ inserted' = Append(inserted, o)
               /\ UNCHANGED <<pixels, theme_dicts, grids, terminal, printed, edits, pc>>
               /\ UNCHANGED value_objects
               /\ UNCHANGED standalone

\* TerminalSystem.update -> DisplayManager.update -> Screen.update, the
\* window focused with the mouse over a cell.
MouseUpdateFocused ==
    \E position \in CharPositions :
        /\ Running
        /\ edits < MaxHitTests
        /\ LET r == Screen_update_inputs(screen, objects, grids,
                                         InputHandler_get_inputs(TRUE, position))
           IN  CommitHitTest(HitTest("update", r.raised, TRUE, position),
                             r.screen, r.objects)

\* The same with the window not focused.
MouseUpdateUnfocused ==
    /\ Running
    /\ edits < MaxHitTests
    /\ LET r == Screen_update_inputs(screen, objects, grids,
                                     InputHandler_get_inputs(FALSE, <<>>))
       IN  CommitHitTest(HitTest("update", r.raised, FALSE, <<>>), r.screen, r.objects)

\* container.mouse_over = Point(x, y), or None
ContainerSetMouseOver ==
    \E value \in CharPositions \cup {<<>>} :
        /\ Running
        /\ edits < MaxHitTests
        /\ inserted # <<>>
        /\ LET r == ContainerObject_set_mouse_over(inserted, objects, grids, value)
           IN  CommitHitTest(HitTest("container.mouse_over", "", TRUE, value),
                             screen, r.objects)

\* What a recomposition started from and what it overlaid, in order.
Recompose(raised, recomposed, composed) ==
    [op |-> "refresh_screen", raised |-> raised, focused |-> TRUE, position |-> <<>>,
     recomposed |-> recomposed, composed |-> composed]

\* TerminalSystem.refresh_screen -> DisplayManager.refresh_screen, on the
\* Screen that has the cursor.
MouseRefreshScreen ==
    /\ Running
    /\ edits < MaxHitTests
    /\ \E r \in {DisplayManager_refresh_screen(Start, screen, objects)} :
       LET c == Canon(r.w)
       IN  /\ pixels' = c.pixels
           /\ theme_dicts' = c.theme_dicts
           /\ grids' = c.grids
           /\ terminal' = c.terminal
           /\ printed' = c.printed
           /\ call' = Recompose(r.raised, screen.should_draw, r.composed)
           /\ entry' = HitEntry
           /\ edits' = edits + 1
           /\ screen' = r.screen
           /\ objects' = r.objects
           /\ pc' = IF r.raised = "" THEN pc ELSE "crashed"
           /\ UNCHANGED inserted
           /\ UNCHANGED value_objects
           /\ UNCHANGED standalone

NextMouse ==
    \/ MouseAddObject
    \/ MouseUpdateFocused
    \/ MouseUpdateUnfocused
    \/ ContainerSetMouseOver
    \/ MouseRefreshScreen

SpecMouse == InitMouse /\ [][NextMouse]_vars

\* The object's rectangle [x, x + width) x [y, y + height) holds the position.
Holds(o, position) ==
    LET g == grids[o]
    IN  /\ x_char(g.coordinates) <= position[1]
        /\ position[1] < x_char(g.coordinates) + Width(g)
        /\ y_char(g.coordinates) <= position[2]
        /\ position[2] < y_char(g.coordinates) + Height(g)

\* The objects a hit test at the position may pick: visible, under the
\* mouse, no visible object under the mouse above them.
Topmost(position) ==
    {o \in OnScreen :
        /\ objects[o].visible /\ Holds(o, position)
        /\ \A p \in OnScreen :
              objects[p].visible /\ Holds(p, position)
                  => objects[p].z_index <= objects[o].z_index}

\* The position in the object's own coordinates.
Local(o, position) ==
    <<position[1] - x_char(grids[o].coordinates),
      position[2] - y_char(grids[o].coordinates)>>

Hovered == {o \in OnScreen : objects[o].mouse_over # <<>>}

\* C18: after a hit test of the frame (Screen.update with a cursor, or the
\* container's mouse_over handed to its children) at most one object has a
\* mouse_over that is not None: a visible object of highest z_index among
\* those whose rectangle holds the mouse position, and its mouse_over is the
\* position in its own coordinates; every other object's mouse_over is None.
C18_OnlyTopmostObjectHovered ==
    (call.op \in {"update", "container.mouse_over"} /\ call.focused) =>
        /\ call.raised = ""
        /\ Cardinality(Hovered) <= 1
        /\ IF call.position = <<>> THEN Hovered = {}
           ELSE /\ Hovered \subseteq Topmost(call.position)
                /\ Topmost(call.position) # {} => Hovered # {}
                /\ \A o \in Hovered : objects[o].mouse_over = Local(o, call.position)

----------------------------------------------------------------------------
(* SpecMain: the program of __main__.py.  Main() builds the TerminalSystem *)
(* (which hides the cursor as its last step) and the client's Screen; then *)
(* main.loop() runs the frames of Spec until the client clears self.run,   *)
(* and main.shutdown() follows.  The try statement has one handler, for    *)
(* KeyboardInterrupt; any other exception leaves the program.              *)

\* cursor.hide() and cursor.show(): the terminal stops / starts showing its
\* cursor.
cursor_hide(visible) == FALSE
cursor_show(visible) == TRUE

\* TerminalSystem.shutdown
TerminalSystem_shutdown(visible) == cursor_show(visible)

\* Main.shutdown
Main_shutdown(visible) == TerminalSystem_shutdown(visible)

\* What can leave a call: nothing, Ctrl-C, or an exception of another class.
Raised == {"", "KeyboardInterrupt", "Exception"}

InitMain ==
    /\ pixels = <<>>
    /\ theme_dicts = <<>>
    /\ grids = <<>>
    /\ terminal = BlankTerminal
    /\ printed = <<>>
    /\ call = Frame("__main__", "", <<>>)
    /\ entry = NoFrameEntry
    /\ edits = 0
    /\ screen = NoScreen
    /\ objects = [o \in {} |-> BaseObject(0, TRUE)]
    /\ inserted = <<>>
    /\ pc = "start"
    /\ NoValueObjects
    /\ NoStandalone

\* main = Main(): TerminalSystem.__init__ up to the DisplayManager, then
\* cursor.hide(), then the rest of Main.__init__.  hidden: whether
\* cursor.hide() ran before the exception, if there is one; main is
\* assigned only when nothing is raised.
MainConstruct ==
    \E raised \in Raised, hidden \in BOOLEAN :
        /\ pc = "start"
        /\ raised = "" => hidden
        /\ LET w0 == Display_init(EmptyWorld, ScreenSize(MaxWidth, 1), Blank)
               w1 == WithScreenGrid(w0)
               w2 == WithObjectGrid(WithObjectGrid(WithObjectGrid(w1, "obj1"), "obj2"),
                                    "obj3")
               c  == IF raised = "" THEN Canon(w2) ELSE World
           IN  /\ pixels' = c.pixels
               /\ theme_dicts' = c.theme_dicts
               /\ grids' = c.grids
               /\ terminal' = c.terminal
               /\ printed' = c.printed
        /\ call' = Frame("Main", raised, <<>>)
        /\ cursor_visible' = IF hidden THEN cursor_hide(cursor_visible) ELSE cursor_visible
        /\ pc' = IF raised = "" THEN "loop" ELSE "not_built"
        /\ UNCHANGED <<entry, edits, screen, objects, inserted, axes, pixel_theme, standalone>>

\* Ctrl-C while main.loop() runs.
KeyboardInterrupt ==
    /\ Running
    /\ call' = Frame("loop", "KeyboardInterrupt", <<>>)
    /\ pc' = "crashed"
    /\ UNCHANGED <<pixels, theme_dicts, grids, terminal, printed, entry, edits,
                   screen, objects, inserted>>
    /\ UNCHANGED value_objects
    /\ UNCHANGED standalone

\* The client's code has cleared self.run: main.loop() returns at the top of
\* the while and main.shutdown() runs.
MainShutdown ==
    /\ pc = "loop"
    /\ call' = Frame("shutdown", "", <<>>)
    /\ cursor_visible' = Main_shutdown(cursor_visible)
    /\ pc' = "exited"
    /\ UNCHANGED <<pixels, theme_dicts, grids, terminal, printed, entry, edits,
                   screen, objects, inserted, axes, pixel_theme, standalone>>

\* An exception has left Main() or main.loop().  except KeyboardInterrupt:
\* error(...), then main.shutdown() -- on None when Main() did not return,
\* which raises AttributeError.  Any other exception propagates.
MainExcept ==
    /\ pc \in {"crashed", "not_built"}
    /\ LET handled == call.raised = "KeyboardInterrupt"
           main_is_None == pc = "not_built"
       IN  /\ cursor_visible' = IF handled /\ ~main_is_None
                                THEN Main_shutdown(cursor_visible)
                                ELSE cursor_visible
           /\ call' = Frame("exit",
                            IF ~handled THEN call.raised
                            ELSE IF main_is_None THEN "AttributeError" ELSE "",
                            <<>>)
    /\ pc' = "exited"
    /\ UNCHANGED <<pixels, theme_dicts, grids, terminal, printed, entry, edits,
                   screen, objects, inserted, axes, pixel_theme, standalone>>

NextMain ==
    \/ MainConstruct
    \/ AddObject
    \/ SetVisible
    \/ Update
    \/ RefreshScreen
    \/ KeyboardInterrupt
    \/ MainShutdown
    \/ MainExcept

SpecMain == InitMain /\ [][NextMain]_vars

\* C20: whenever the program has ended -- the loop left normally, by
\* KeyboardInterrupt, or by another exception raised in construction, update
\* or refresh_screen -- after TerminalSystem hid the cursor, shutdown has run
\* and the cursor is visible again.
C20_CursorVisibleAtExit == pc = "exited" => cursor_visible

----------------------------------------------------------------------------
(* SpecSuppressor: MouseHandler and its MouseBlocker worker process,        *)
(* talking over one TCP connection.  A byte stream is a sequence of atoms:  *)
(* a keyword, a decimal digit or a blank, each a string.  The transport     *)
(* hands a receiver any non-empty prefix of the bytes in flight (cut        *)
(* between atoms), so messages sent separately may arrive joined and one    *)
(* message may arrive in pieces.                                            *)

\* update_inputs calls in one run.
MaxFrames == 2
\* Mouse events seen by the worker's listener in one run.
MaxEvents == 1

DecimalDigits == <<"0", "1", "2", "3", "4", "5", "6", "7", "8", "9">>

\* str(n) for a non-negative integer n below 10.
str(n) == <<DecimalDigits[n + 1]>>

IsDigit(atom) == \E i \in 1..10 : DecimalDigits[i] = atom
DigitValue(atom) == (CHOOSE i \in 1..10 : DecimalDigits[i] = atom) - 1

RECURSIVE DecimalValue(_)
DecimalValue(field) ==
    IF field = <<>> THEN 0
    ELSE 10 * DecimalValue(SubSeq(field, 1, Len(field) - 1))
         + DigitValue(field[Len(field)])

\* int(field): <<value>>, or <<>> where Python raises ValueError.
ParseInt(field) ==
    IF field # <<>> /\ \A i \in 1..Len(field) : IsDigit(field[i])
    THEN <<DecimalValue(field)>>
    ELSE <<>>

\* line.split(sep): the fields between separators, empty fields included.
RECURSIVE SplitOn(_, _)
SplitOn(line, sep) ==
    IF \A i \in 1..Len(line) : line[i] # sep THEN <<line>>
    ELSE LET i == CHOOSE j \in 1..Len(line) :
                      /\ line[j] = sep
                      /\ \A k \in 1..(j - 1) : line[k] # sep
         IN  <<SubSeq(line, 1, i - 1)>>
             \o SplitOn(SubSeq(line, i + 1, Len(line)), sep)

\* command.split(' ')
Split(command) == SplitOn(command, " ")

Whitespace == {" ", "\n"}

\* response.strip(): leading and trailing whitespace removed.
RECURSIVE strip(_)
strip(response) ==
    IF response = <<>> THEN <<>>
    ELSE IF Head(response) \in Whitespace THEN strip(Tail(response))
    ELSE IF response[Len(response)] \in Whitespace
         THEN strip(SubSeq(response, 1, Len(response) - 1))
    ELSE response

\* response.lower(), on the atoms a response can hold.
lower(response) ==
    [i \in 1..Len(response) |->
        IF response[i] = "True" THEN "true"
        ELSE IF response[i] = "False" THEN "false"
        ELSE response[i]]

\* The messages of MouseHandler._update_suppressor.
StartCommand == <<"start">>
StopCommand == <<"stop">>
WindowRectCommand(r) ==
    <<"update_window_rect:", " ">> \o str(r[1]) \o <<" ">> \o str(r[2])
        \o <<" ">> \o str(r[3]) \o <<" ">> \o str(r[4])
MousePositionCommand(p) ==
    <<"update_mouse_position:", " ">> \o str(p[1]) \o <<" ">> \o str(p[2])

\* The worker's reply: "mouse_clicked: " + str(self.is_clicked).
Reply(is_clicked) ==
    <<"mouse_clicked:", " ", IF is_clicked THEN "True" ELSE "False">>

\* MouseBlocker.__init__, as run by __main__.
MouseBlocker_init ==
    [window_rect |-> <<0, 0, 100, 100>>,
     mouse_position |-> <<0, 0>>,
     is_clicked |-> FALSE,
     block_mouse |-> FALSE,
     thread |-> "listening",
     command |-> <<>>,
     events |-> 0,
     suppressed |-> FALSE]

\* One turn of the worker's while loop on the bytes recv returned (never
\* empty here): the worker afterwards, with the thread "returned" after
\* break and "died" after an exception, and the reply it sent, if any.
MouseBlocker_socket_listener(self, command) ==
    LET done(worker) == [worker |-> [worker EXCEPT !.command = command],
                         reply |-> Reply(worker.is_clicked)]
        dead == [worker |-> [self EXCEPT !.thread = "died",
                                         !.command = command],
                 reply |-> <<>>]
        fields == Tail(Split(command))
    IN  IF command = <<"unblock">>
        THEN done([self EXCEPT !.block_mouse = FALSE])
        ELSE IF command = <<"block">>
        THEN done([self EXCEPT !.block_mouse = TRUE])
        ELSE IF command = <<"exit">>
        THEN [worker |-> [self EXCEPT !.thread = "returned",
                                      !.command = command],
              reply |-> <<>>]
        ELSE IF Head(command) = "update_window_rect:"
        THEN IF /\ Len(fields) >= 4
                /\ \A i \in 1..4 : ParseInt(fields[i]) # <<>>
             THEN done([self EXCEPT !.window_rect =
                            [i \in 1..4 |-> ParseInt(fields[i])[1]]])
             ELSE dead
        ELSE IF command = <<"update_mouse_position">>
        THEN IF /\ Len(fields) >= 2
                /\ \A i \in 1..2 : ParseInt(fields[i]) # <<>>
             THEN done([self EXCEPT !.mouse_position =
                            [i \in 1..2 |-> ParseInt(fields[i])[1]]])
             ELSE dead
        ELSE done(self)

WM_LBUTTONDOWN == 513
WM_LBUTTONUP == 514
\* The messages of the events tried: the two above and a mouse move.
Messages == {WM_LBUTTONDOWN, WM_LBUTTONUP, WM_LBUTTONDOWN - 1}

\* MouseBlocker._win32_event_filter(msg, _): a left click inside the window
\* is suppressed while block_mouse is set.
MouseBlocker_win32_event_filter(self, msg) ==
    IF /\ self.block_mouse
       /\ msg \in {WM_LBUTTONDOWN, WM_LBUTTONUP}
       /\ self.window_rect[1] < self.mouse_position[1]
       /\ self.mouse_position[1] < self.window_rect[3]
       /\ self.window_rect[2] < self.mouse_position[2]
       /\ self.mouse_position[2] < self.window_rect[4]
    THEN [self EXCEPT !.is_clicked = (msg = WM_LBUTTONDOWN),
                      !.suppressed = TRUE,
                      !.events = @ + 1]
    ELSE [self EXCEPT !.suppressed = FALSE, !.events = @ + 1]

\* MouseHandler.__init__ (the suppressor's part) with the worker started
\* and the connection made.
MouseHandler_init ==
    [_suppress_mouse |-> FALSE,
     _was_suppressed |-> FALSE,
     _is_clicked |-> FALSE,
     pc |-> "idle",
     frames |-> 0,
     raised |-> "",
     to_worker |-> <<>>,
     to_client |-> <<>>,
     worker |-> MouseBlocker_init]

\* MouseHandler.update_inputs down to the receive of _update_suppressor:
\* the window's focus decides _suppress_mouse, then two or three messages
\* are sent one after the other.
MouseHandler_update_inputs(self, focused, window_rect, position) ==
    LET edge == IF focused /\ ~self._was_suppressed THEN <<StartCommand>>
                ELSE IF ~focused /\ self._was_suppressed THEN <<StopCommand>>
                ELSE <<>>
        sent == edge \o <<WindowRectCommand(window_rect),
                          MousePositionCommand(position)>>
        Bytes[i \in 0..Len(sent)] ==
            IF i = 0 THEN <<>> ELSE Bytes[i - 1] \o sent[i]
    IN  [self EXCEPT !._suppress_mouse = focused,
                     !._was_suppressed = focused,
                     !.to_worker = @ \o Bytes[Len(sent)],
                     !.pc = "receiving"]

\* The rest of _update_suppressor on the bytes recv returned (empty when
\* the worker has closed the connection).
MouseHandler_receive(self, data) ==
    LET response == strip(lower(data))
        last == response[Len(response)]
        ok == /\ response # <<>>
              /\ Head(response) = "mouse_clicked:"
              /\ last \in {"true", "false"}
    IN  IF ok
        THEN [self EXCEPT !._is_clicked = (last = "true"),
                          !.pc = "idle",
                          !.frames = @ + 1]
        ELSE [self EXCEPT !.pc = "crashed",
                          !.raised = "ValueError",
                          !.frames = @ + 1]

WindowRects == {<<0, 0, 0, 0>>, <<1, 2, 8, 9>>}
MousePositions == {<<0, 0>>, <<5, 6>>}

\* None of the library's grids, value objects or screens.
StandaloneOnly ==
    /\ axes = <<>>
    /\ pixel_theme = <<>>
    /\ cursor_visible = TRUE
    /\ call = Assigned("", "", Whole(0))
    /\ entry = <<>>
    /\ edits = 0
    /\ ValueObjectsOnly

InitSuppressor ==
    /\ suppressor = MouseHandler_init
    /\ image = <<>>
    /\ priority_queue = <<>>
    /\ NoMoreStandalone
    /\ StandaloneOnly

CommitSuppressor(s) ==
    /\ suppressor' = s
    /\ UNCHANGED <<pixels, theme_dicts, grids, terminal, printed, call, entry,
                   edits, screen, objects, inserted, pc>>
    /\ UNCHANGED value_objects
    /\ UNCHANGED <<image, priority_queue>>
    /\ UNCHANGED more_standalone

\* A frame begins: update_inputs sends its messages.
UpdateInputs ==
    /\ suppressor.pc = "idle"
    /\ suppressor.frames < MaxFrames
    /\ \E focused \in BOOLEAN, r \in WindowRects, p \in MousePositions :
        CommitSuppressor(MouseHandler_update_inputs(suppressor, focused, r, p))

\* The worker's recv returns some of the bytes in flight and the loop body
\* runs on them.
WorkerReceive ==
    /\ suppressor.worker.thread = "listening"
    /\ suppressor.to_worker # <<>>
    /\ \E k \in 1..Len(suppressor.to_worker) :
        \E r \in {MouseBlocker_socket_listener(
                      suppressor.worker, SubSeq(suppressor.to_worker, 1, k))} :
            CommitSuppressor(
                [suppressor EXCEPT
                    !.worker = r.worker,
                    !.to_worker = SubSeq(@, k + 1, Len(@)),
                    !.to_client = @ \o r.reply])

\* The client's recv returns some of the reply bytes in flight.
ClientReceive ==
    /\ suppressor.pc = "receiving"
    /\ suppressor.to_client # <<>>
    /\ \E k \in 1..Len(suppressor.to_client) :
        CommitSuppressor(
            [MouseHandler_receive(suppressor,
                                  SubSeq(suppressor.to_client, 1, k))
                EXCEPT !.to_client = SubSeq(@, k + 1, Len(@))])

\* The client's recv returns no bytes: the worker's thread has ended, its
\* connection is closed and every reply has been read.  (Where the system
\* reports the closed connection as a reset instead, the call raises as
\* well, with another exception.)
ClientReceiveClosed ==
    /\ suppressor.pc = "receiving"
    /\ suppressor.to_client = <<>>
    /\ suppressor.worker.thread # "listening"
    /\ CommitSuppressor(MouseHandler_receive(suppressor, <<>>))

\* The pynput listener reports a mouse event to the worker.
Win32Event ==
    /\ suppressor.worker.events < MaxEvents
    /\ \E msg \in Messages :
        CommitSuppressor(
            [suppressor EXCEPT
                !.worker = MouseBlocker_win32_event_filter(@, msg)])

NextSuppressor ==
    \/ UpdateInputs
    \/ WorkerReceive
    \/ ClientReceive
    \/ ClientReceiveClosed
    \/ Win32Event

SpecSuppressor == InitSuppressor /\ [][NextSuppressor]_vars

\* update_inputs is not running: a frame may start.
FrameStart == suppressor.pc = "idle"

\* C21: at the start of every frame no unread reply and no unprocessed
\* request remains on the socket: each update_inputs is one request
\* answered by one reply, which the client consumes.
C21_OneRequestOneReplyPerFrame ==
    FrameStart => suppressor.to_worker = <<>> /\ suppressor.to_client = <<>>

\* The worker has just processed exactly the message m, delivered whole.
Processed(m) ==
    /\ suppressor.worker.command = m
    /\ suppressor.worker.thread = "listening"

\* C22: every command the client sends takes its effect in the worker once
\* processed: `start` switches suppression on, `stop` off, and the two
\* update messages set the worker's window rectangle and mouse position.
C22_CommandsTakeEffect ==
    /\ Processed(StartCommand) => suppressor.worker.block_mouse
    /\ Processed(StopCommand) => ~suppressor.worker.block_mouse
    /\ \A r \in WindowRects :
        Processed(WindowRectCommand(r)) => suppressor.worker.window_rect = r
    /\ \A p \in MousePositions :
        Processed(MousePositionCommand(p))
            => suppressor.worker.mouse_position = p

----------------------------------------------------------------------------
(* SpecImage: a client building Image objects, from a list of frames and    *)
(* from image files.  A frame is a sequence of rows and a row a sequence of *)
(* characters; a file is the list of its lines, each ending in "\n".  A     *)
(* pixel is represented by its character.  Time is counted in seconds.      *)

\* Frames in a list or a file, rows in a frame, characters in a row.
MaxFrameCount == 2
MaxImageSize == 2
\* The highest fps a metadata line asks for.
MaxFps == 2

\* a >= b on numbers
GreaterEqual(a, b) == a.n * b.d >= b.n * a.d

\* _extract_metadata(file_contents): the values, or the exception raised.
extract_metadata(file_contents) ==
    LET metadata == SplitOn(strip(file_contents[1]), ":")
        field(i) == IF i <= Len(metadata) THEN ParseInt(metadata[i]) ELSE <<>>
        fail(i) == IF i > Len(metadata) THEN "IndexError" ELSE "ValueError"
        vals(frame_count, fps) ==
            [raised |-> "", fields |-> Len(metadata),
             height |-> field(1)[1], width |-> field(2)[1],
             frame_count |-> frame_count, fps |-> fps]
        failed(i) == [raised |-> fail(i), fields |-> Len(metadata),
                      height |-> 0, width |-> 0,
                      frame_count |-> 0, fps |-> Whole(0)]
    IN  IF field(1) = <<>> THEN failed(1)
        ELSE IF field(2) = <<>> THEN failed(2)
        ELSE IF Len(metadata) = 3 THEN vals(1, Whole(0))
        ELSE IF field(3) = <<>> THEN failed(3)
        ELSE IF field(4) = <<>> THEN failed(4)
        ELSE vals(field(3)[1], Whole(field(4)[1]))

\* _get_pixel_row(row, width, base_colors) on a row without colour codes:
\* one pixel per character, stopping once width of them are made.
get_pixel_row(row, width) ==
    IF width >= 1 /\ width < Len(row) THEN SubSeq(row, 1, width) ELSE row

\* file_contents[a:b]
Slice(lines, a, b) ==
    SubSeq(lines, a + 1, IF b < Len(lines) THEN b ELSE Len(lines))

\* _assemble_image_frames(file_contents, metadata)
assemble_image_frames(file_contents, metadata) ==
    [frame_num \in 1..metadata.frame_count |->
        LET line_offset == 2 + (metadata.height + 1) * (frame_num - 1)
            rows == Slice(file_contents, line_offset,
                          line_offset + metadata.height)
        IN  [r \in 1..Len(rows) |-> get_pixel_row(rows[r], metadata.width)]]

\* The attributes Image.__init__ assigns before it looks at the frames
\* (given stands for the path when it is the contents of a file; metadata
\* keeps what _extract_metadata returned).
Image_attributes(kind, given, now) ==
    [kind |-> kind,
     _given_image_frames |-> given,
     metadata |-> <<>>,
     _frame_count |-> 1,
     _fps |-> Whole(0),
     _frame_delay |-> Whole(0),
     _current_frame |-> 0,
     _last_frame_time |-> Whole(now),
     _frames |-> <<>>,
     _grid |-> <<>>,
     raised |-> ""]

\* Image._get_grids_from_file on a path ending in .AI or .AAI whose file
\* holds file_contents: self afterwards, with the frames or the exception.
Image_get_grids_from_file(self, file_contents) ==
    IF file_contents = <<>> THEN [self EXCEPT !.raised = "FileNotFoundError"]
    ELSE LET metadata == extract_metadata(file_contents)
             read == [self EXCEPT !.metadata = <<metadata>>]
             counted == [read EXCEPT !._frame_count = metadata.frame_count,
                                     !._fps = metadata.fps]
         IN  IF metadata.raised # ""
             THEN [read EXCEPT !.raised = "ValueError"]
             ELSE IF metadata.fps.n = 0
             THEN [counted EXCEPT !.raised = "ZeroDivisionError"]
             ELSE [counted EXCEPT
                      !._frame_delay = TrueDiv(Whole(1), metadata.fps),
                      !._frames = assemble_image_frames(file_contents,
                                                        metadata)]

\* self.grid = new_grid on an Image.  The class body's
\* @PixelGrid.size.setter def _size makes Image._size a property whose getter
\* is PixelGrid.size's (return self._size) and whose setter does nothing:
\* the grid setter stores the cells and then reads self._size, which calls
\* itself until RecursionError.
Image_set_grid(self, new_grid) ==
    [self EXCEPT !._grid = new_grid, !.raised = "RecursionError"]

\* Image(position, image_frames): the object as the constructor left it and
\* the exception that ended it ("": none).
Image_init(kind, given, now) ==
    LET self == Image_attributes(kind, given, now)
        loaded == IF kind = "file" THEN Image_get_grids_from_file(self, given)
                  ELSE [self EXCEPT !._frames = given]
    IN  IF loaded.raised # "" THEN loaded
        ELSE IF loaded._frames = <<>> \/ loaded._frames[1] = <<>>
        THEN [loaded EXCEPT !.raised = "IndexError"]
        ELSE Image_set_grid(loaded, loaded._frames[1])

\* Image.update_animation at time current_time: self afterwards and what
\* the call returned.
Image_update_animation(self, current_time) ==
    LET elapsed == [n |-> current_time.n * self._last_frame_time.d
                            - self._last_frame_time.n * current_time.d,
                    d |-> current_time.d * self._last_frame_time.d]
        next == (self._current_frame + 1) % self._frame_count
        advanced == [self EXCEPT !._current_frame = next,
                                 !._last_frame_time = current_time]
    IN  IF self._frame_count = 1 THEN [self |-> self, ret |-> <<FALSE>>]
        ELSE IF ~GreaterEqual(elapsed, self._frame_delay)
        THEN [self |-> self, ret |-> <<FALSE>>]
        ELSE IF self._frame_count = 0
        THEN [self |-> [self EXCEPT !.raised = "ZeroDivisionError"],
              ret |-> <<>>]
        ELSE IF next >= Len(self._frames)
        THEN [self |-> [advanced EXCEPT !.raised = "IndexError"], ret |-> <<>>]
        ELSE LET set == Image_set_grid(advanced, self._frames[next + 1])
             IN  [self |-> set,
                  ret |-> IF set.raised = "" THEN <<TRUE>> ELSE <<>>]

\* The row of a frame: width characters and the line end.
ImageRow(frame_num, width) ==
    [c \in 1..(width + 1) |->
        IF c = width + 1 THEN "\n" ELSE DecimalDigits[frame_num + 1]]

\* Frames given as a list: frame k shows the digit k.
GivenFrames(count, height, width) ==
    [k \in 1..count |-> [r \in 1..height |->
        SubSeq(ImageRow(k, width), 1, width)]]

\* An image file: the metadata line, a blank line, then the frames written,
\* each followed by a blank line.
RECURSIVE FrameLines(_, _, _)
FrameLines(count, height, width) ==
    IF count = 0 THEN <<>>
    ELSE FrameLines(count - 1, height, width)
         \o [r \in 1..height |-> ImageRow(count, width)] \o <<<<"\n">>>>

ImageFile(metadata, written, height, width) ==
    <<metadata \o <<"\n">>, <<"\n">>>> \o FrameLines(written, height, width)

\* height:width:base_colors, with no base colours named
StaticMetadata(height, width) == str(height) \o <<":">> \o str(width) \o <<":">>
\* height:width:frame_count:fps:base_colors
AnimatedMetadata(height, width, frame_count, fps) ==
    str(height) \o <<":">> \o str(width) \o <<":">> \o str(frame_count)
        \o <<":">> \o str(fps) \o <<":">>

InitImage ==
    /\ image = <<>>
    /\ suppressor = <<>>
    /\ priority_queue = <<>>
    /\ NoMoreStandalone
    /\ StandaloneOnly

CommitImage(img) ==
    /\ image' = <<img>>
    /\ UNCHANGED <<pixels, theme_dicts, grids, terminal, printed, call, entry,
                   edits, screen, objects, inserted, pc>>
    /\ UNCHANGED value_objects
    /\ UNCHANGED <<suppressor, priority_queue>>
    /\ UNCHANGED more_standalone

ImageSizes == 1..MaxImageSize

\* img = Image(position, frames)
ImageFromFrames ==
    \E count \in 1..MaxFrameCount, height \in ImageSizes, width \in ImageSizes :
        CommitImage(Image_init("frames", GivenFrames(count, height, width), 0))

\* img = Image(position, path), the file's metadata line naming height,
\* width and base colours only.
ImageFromStaticFile ==
    \E height \in ImageSizes, width \in ImageSizes, written \in 0..MaxFrameCount :
        CommitImage(Image_init(
            "file",
            ImageFile(StaticMetadata(height, width), written, height, width),
            0))

\* img = Image(position, path), the file's metadata line naming frame_count
\* and fps as well.
ImageFromAnimatedFile ==
    \E height \in ImageSizes, width \in ImageSizes, written \in 0..MaxFrameCount,
       frame_count \in 0..MaxFrameCount, fps \in 0..MaxFps :
        CommitImage(Image_init(
            "file",
            ImageFile(AnimatedMetadata(height, width, frame_count, fps),
                      written, height, width),
            0))

NextImage ==
    \/ ImageFromFrames
    \/ ImageFromStaticFile
    \/ ImageFromAnimatedFile

SpecImage == InitImage /\ [][NextImage]_vars

\* Seconds that may pass before a call of update_animation.
Waits == {[n |-> t, d |-> 2] : t \in 0..(2 * MaxFps)}

\* C23: every Image the client builds is an object on which
\* update_animation, after any wait, keeps current_frame within
\* [0, frame_count) and returns true exactly when it advanced current_frame
\* by one modulo frame_count; with frame_count = 1 it returns false and
\* leaves current_frame and the grid as they were.
C23_AnimationAdvancesModuloFrameCount ==
    \A i \in 1..Len(image) :
        /\ image[i].raised = ""
        /\ \A wait \in Waits :
            LET r == Image_update_animation(image[i], wait)
                before == image[i]._current_frame
                after == r.self._current_frame
            IN  /\ r.self.raised = ""
                /\ after \in 0..(image[i]._frame_count - 1)
                /\ r.ret = <<TRUE>>
                    <=> after = (before + 1) % image[i]._frame_count
                        /\ after # before
                /\ image[i]._frame_count = 1
                    => r.ret = <<FALSE>> /\ r.self = image[i]

\* C25: an image file whose metadata line is height:width:base_colors loads
\* as a single static frame: frame_count = 1, one frame of at most height
\* rows, and update_animation false after any wait.
C25_StaticFileLoadsOneFrame ==
    \A i \in 1..Len(image) :
        \A m \in 1..Len(image[i].metadata) :
            image[i].metadata[m].fields = 3 /\ image[i].metadata[m].raised = ""
            => /\ image[i].raised = ""
               /\ image[i]._frame_count = 1
               /\ Len(image[i]._frames) = 1
               /\ Len(image[i]._frames[1]) <= image[i].metadata[m].height
               /\ \A wait \in Waits :
                    Image_update_animation(image[i], wait).ret = <<FALSE>>

----------------------------------------------------------------------------
(* SpecQueue: a client of one PriorityQueue.  The queue is the list         *)
(* _priority_queue of items [value, priority].                             *)

\* Items in the queue.
MaxQueue == 3
\* The highest priority given to an item.
MaxPriority == 2

QueueValues == {"a", "b"}
Priorities == 0..MaxPriority

\* The position of the first item of the highest priority.
FirstHighest(q) ==
    CHOOSE i \in 1..Len(q) :
        /\ \A j \in 1..Len(q) : q[j].priority <= q[i].priority
        /\ \A j \in 1..(i - 1) : q[j].priority < q[i].priority

Without(q, i) == SubSeq(q, 1, i - 1) \o SubSeq(q, i + 1, Len(q))

\* PriorityQueue._sort_queue: list.sort by priority, reverse=True; items of
\* equal priority keep their order.
RECURSIVE PriorityQueue_sort_queue(_)
PriorityQueue_sort_queue(q) ==
    IF q = <<>> THEN <<>>
    ELSE LET i == FirstHighest(q)
         IN  <<q[i]>> \o PriorityQueue_sort_queue(Without(q, i))

\* The outcome of a call: the list afterwards, the exception, the value
\* returned (<<>>: None).
QueueCall(op, q, raised, ret) ==
    [op |-> op, _priority_queue |-> q, raised |-> raised, ret |-> ret]

\* PriorityQueue()
PriorityQueue_init == QueueCall("__init__", <<>>, "", <<>>)

\* PriorityQueue.add(value, priority)
PriorityQueue_add(q, value, priority) ==
    QueueCall("add", Append(q, [value |-> value, priority |-> priority]),
              "", <<>>)

\* PriorityQueue.pop()
PriorityQueue_pop(q) ==
    IF q = <<>> THEN QueueCall("pop", q, "", <<>>)
    ELSE LET sorted == PriorityQueue_sort_queue(q)
         IN  QueueCall("pop", Tail(sorted), "", <<sorted[1].value>>)

\* PriorityQueue.peek()
PriorityQueue_peek(q) ==
    IF q = <<>> THEN QueueCall("peek", q, "", <<>>)
    ELSE LET sorted == PriorityQueue_sort_queue(q)
         IN  QueueCall("peek", sorted, "", <<sorted[1].value>>)

\* PriorityQueue.index(value, instance): <<index>>, zero-based, or <<>>.
PriorityQueue_index(q, value, instance) ==
    LET instances == SelectSeq([i \in 1..Len(q) |-> i],
                               LAMBDA i : q[i].value = value)
        n == Len(instances)
        absolute == IF instance < 0 THEN 0 - instance ELSE instance
    IN  IF instance >= n \/ absolute > n THEN <<>>
        ELSE <<instances[ListIndex(n, instance)[1]] - 1>>

\* PriorityQueue.remove(value, quantity)
RECURSIVE RemoveLoop(_, _, _)
RemoveLoop(q, value, quantity) ==
    IF quantity <= 0 THEN q
    ELSE LET index == PriorityQueue_index(q, value, 0)
         IN  IF index = <<>> THEN q
             ELSE RemoveLoop(Without(q, index[1] + 1), value, quantity - 1)

PriorityQueue_remove(q, value, quantity) ==
    IF quantity = 0 - 1
    THEN QueueCall("remove", SelectSeq(q, LAMBDA item : item.value # value),
                   "", <<>>)
    ELSE QueueCall("remove", RemoveLoop(q, value, quantity), "", <<>>)

\* PriorityQueue.remove_at(index): del self._priority_queue[index]
PriorityQueue_remove_at(q, index) ==
    LET at == ListIndex(Len(q), index)
    IN  IF at = <<>> THEN QueueCall("remove_at", q, "IndexError", <<>>)
        ELSE QueueCall("remove_at", Without(q, at[1]), "", <<>>)

\* PriorityQueue.priority(value, priority, instance)
PriorityQueue_priority(q, value, priority, instance) ==
    LET index == PriorityQueue_index(q, value, instance)
    IN  IF index = <<>> THEN QueueCall("priority", q, "", <<>>)
        ELSE QueueCall("priority",
                       [q EXCEPT ![index[1] + 1].priority = priority], "", <<>>)

\* PriorityQueue.highest_priority / lowest_priority: <<priority>> or <<>>.
PriorityQueue_highest_priority(q) ==
    IF q = <<>> THEN <<>> ELSE <<q[1].priority>>
PriorityQueue_lowest_priority(q) ==
    IF q = <<>> THEN <<>> ELSE <<q[Len(q)].priority>>

InitQueue ==
    /\ priority_queue = PriorityQueue_init
    /\ suppressor = <<>>
    /\ image = <<>>
    /\ NoMoreStandalone
    /\ StandaloneOnly

CommitQueue(outcome) ==
    /\ priority_queue' = outcome
    /\ UNCHANGED <<pixels, theme_dicts, grids, terminal, printed, call, entry,
                   edits, screen, objects, inserted, pc>>
    /\ UNCHANGED value_objects
    /\ UNCHANGED <<suppressor, image>>
    /\ UNCHANGED more_standalone

QueueAdd ==
    /\ Len(priority_queue._priority_queue) < MaxQueue
    /\ \E value \in QueueValues, priority \in Priorities :
        CommitQueue(PriorityQueue_add(priority_queue._priority_queue,
                                      value, priority))

QueuePop ==
    /\ Len(priority_queue._priority_queue) <= MaxQueue
    /\ CommitQueue(PriorityQueue_pop(priority_queue._priority_queue))

QueuePeek ==
    /\ Len(priority_queue._priority_queue) <= MaxQueue
    /\ CommitQueue(PriorityQueue_peek(priority_queue._priority_queue))

QueueRemove ==
    /\ Len(priority_queue._priority_queue) <= MaxQueue
    /\ \E value \in QueueValues, quantity \in {0 - 1, 1, 2} :
        CommitQueue(PriorityQueue_remove(priority_queue._priority_queue,
                                         value, quantity))

QueueRemoveAt ==
    /\ Len(priority_queue._priority_queue) <= MaxQueue
    /\ \E index \in (0 - 1)..(MaxQueue - 1) :
        CommitQueue(PriorityQueue_remove_at(priority_queue._priority_queue,
                                            index))

QueuePriority ==
    /\ Len(priority_queue._priority_queue) <= MaxQueue
    /\ \E value \in QueueValues, priority \in Priorities,
          instance \in {0 - 1, 0, 1} :
        CommitQueue(PriorityQueue_priority(priority_queue._priority_queue,
                                           value, priority, instance))

NextQueue ==
    \/ QueueAdd
    \/ QueuePop
    \/ QueuePeek
    \/ QueueRemove
    \/ QueueRemoveAt
    \/ QueuePriority

SpecQueue == InitQueue /\ [][NextQueue]_vars

QueuedPriorities ==
    {priority_queue._priority_queue[i].priority :
        i \in 1..Len(priority_queue._priority_queue)}

\* C26: whenever the queue is not empty, highest_priority is the maximum
\* and lowest_priority the minimum of the priorities of the items in it.
C26_ExtremePrioritiesAreMaxAndMin ==
    priority_queue._priority_queue # <<>> =>
        /\ \A p \in QueuedPriorities :
            /\ p <= PriorityQueue_highest_priority(
                        priority_queue._priority_queue)[1]
            /\ p >= PriorityQueue_lowest_priority(
                        priority_queue._priority_queue)[1]

----------------------------------------------------------------------------
(* SpecContainer: a client of one ContainerObject.  The container is built *)
(* without children on a grid of its own; the client adds and removes      *)
(* children, changes their z_index and visible, calls update(), draw() and *)
(* assigns mouse_over.  The children are the records in objects, the       *)
(* container's list is container[1]._objects.                              *)

\* Calls on the container and its children in one run.
MaxContainerCalls == 4
\* The children the client builds (their grids overlap).
ContainerChildren == {"obj1", "obj2"}

\* What a call on the container did: recomposed, _update_grid went past its
\* early return; overlaid, the children overlay was called with, in order;
\* tested, the children the hit test went through, in order.
ContainerCall(op, raised, recomposed, overlaid, tested) ==
    [op |-> op, raised |-> raised, recomposed |-> recomposed,
     overlaid |-> overlaid, tested |-> tested]

RECURSIVE ContainerOverlayLoop(_, _, _, _)
\* for obj in self._objects: if obj.visible: self.grid.overlay(obj.grid)
ContainerOverlayLoop(w, list, objs, overlaid) ==
    IF list = <<>> THEN [w |-> w, raised |-> "", overlaid |-> overlaid]
    ELSE IF ~objs[Head(list)].visible
    THEN ContainerOverlayLoop(w, Tail(list), objs, overlaid)
    ELSE LET r == PixelGrid_overlay(w, "container", Head(list))
         IN  IF r.raised # ""
             THEN [w |-> r.w, raised |-> r.raised,
                   overlaid |-> Append(overlaid, Head(list))]
             ELSE ContainerOverlayLoop(r.w, Tail(list), objs,
                                       Append(overlaid, Head(list)))

\* ContainerObject._update_grid: nothing without a child that is visible
\* and dirty; else sort, deep-copy the grid, clear it, overlay the visible
\* children, and become dirty if the grid != the copy.
ContainerObject_update_grid(w, self, objs) ==
    IF ~\E i \in DOMAIN self._objects :
            objs[self._objects[i]].visible /\ objs[self._objects[i]].should_draw
    THEN [w |-> w, self |-> self, raised |-> "", recomposed |-> FALSE,
          overlaid |-> <<>>]
    ELSE LET sorted == SortByZ(self._objects, objs)
             initial_grid == DeepCopyGrid(w, w.grids["container"])
             r == ContainerOverlayLoop(PixelGrid_clear(initial_grid.w, "container"),
                                       sorted, objs, <<>>)
         IN  [w |-> r.w, raised |-> r.raised, recomposed |-> TRUE,
              overlaid |-> r.overlaid,
              self |-> [self EXCEPT
                          !._objects = sorted,
                          !.should_draw =
                              IF r.raised = ""
                                 /\ ~PixelGridEq("container", "initial_grid")
                              THEN TRUE ELSE @]]

\* ContainerObject(name, description, [], initial_grid): BaseObject.__init__
\* leaves should_draw True; the list is a deep copy; _update_grid.
ContainerObject_init(w) ==
    ContainerObject_update_grid(w, [_objects |-> <<>>, should_draw |-> TRUE],
                                <<>>)

\* ContainerObject.add_object
ContainerObject_add_object(w, self, objs, o) ==
    ContainerObject_update_grid(w, [self EXCEPT !._objects = Append(@, o)], objs)

\* ContainerObject.remove_object: list.remove drops the first child == obj,
\* BaseObject.__eq__ comparing the grids (each child has a grid of its own).
ContainerObject_remove_object(w, self, objs, o) ==
    ContainerObject_update_grid(w, [self EXCEPT !._objects = Remove(@, o)], objs)

\* ContainerObject.update(input_handler): BaseObject.update of the container
\* and of each child changes nothing; then _update_grid.
ContainerObject_update(w, self, objs) == ContainerObject_update_grid(w, self, objs)

\* BaseObject.draw on the container: should_draw = False, the grid returned.
BaseObject_draw(self) == [self EXCEPT !.should_draw = FALSE]

\* The container's grid: PixelGrid(Coordinate(), size, Pixel(" ")).
WithContainerGrid(w) ==
    LET w1 == NewPixel(w, Blank)
    IN  PixelGrid_init(w1, "container", PlainSize(0, 0), ScreenSize(MaxWidth, 1),
                       LastPixel(w1))

\* The container's grid by value and its should_draw when a call began.
ContainerEntry ==
    [content |-> Content(World, grids["container"]),
     should_draw |-> container[1].should_draw]

InitContainer ==
    LET w0 == WithContainerGrid(EmptyWorld)
        w1 == WithObjectGrid(WithObjectGrid(w0, "obj1"), "obj2")
        r  == ContainerObject_init(w1)
        c  == Canon(r.w)
    IN  /\ pixels = c.pixels
        /\ theme_dicts = c.theme_dicts
        /\ grids = c.grids
        /\ terminal = c.terminal
        /\ printed = c.printed
        /\ call = ContainerCall("ContainerObject.__init__", r.raised, r.recomposed,
                                r.overlaid, <<>>)
        /\ entry = [content |-> Content(r.w, r.w.grids["container"]),
                    should_draw |-> TRUE]
        /\ edits = 0
        /\ screen = NoScreen
        /\ objects = [o \in {} |-> BaseObject(0, TRUE)]
        /\ inserted = <<>>
        /\ pc = "library"
        /\ NoValueObjects
        /\ suppressor = <<>>
        /\ image = <<>>
        /\ priority_queue = <<>>
        /\ container = <<r.self>>
        /\ button = <<>>
        /\ rate_limiter = <<>>
        /\ pixel_row = <<>>

\* The state after a call on the container or on a child.
CommitContainer(w, outcome, self, objs, n) ==
    LET c == Canon(w)
    IN  /\ pixels' = c.pixels
        /\ theme_dicts' = c.theme_dicts
        /\ grids' = c.grids
        /\ call' = outcome
        /\ entry' = ContainerEntry
        /\ edits' = n
        /\ objects' = objs
        /\ container' = <<self>>
        /\ UNCHANGED <<terminal, printed, screen, inserted, pc>>
        /\ UNCHANGED value_objects
        /\ UNCHANGED <<suppressor, image, priority_queue, button, rate_limiter,
                       pixel_row>>

\* The children in the container's list.
Children == Range(container[1]._objects)

\* container.add_object(BaseObject(name, "", grid, z, visible))
ContainerAddObject ==
    \E o \in ContainerChildren \ DOMAIN objects, z \in ZIndexes, visible \in BOOLEAN :
        /\ edits < MaxContainerCalls
        /\ \E objs \in {[n \in DOMAIN objects \cup {o} |->
                        IF n = o THEN BaseObject(z, visible) ELSE objects[n]]} :
           \E r \in {ContainerObject_add_object(World, container[1], objs, o)} :
            CommitContainer(r.w, ContainerCall("add_object", r.raised, r.recomposed,
                                               r.overlaid, <<>>),
                            r.self, objs, edits + 1)

\* container.remove_object(obj); the client drops the object.
ContainerRemoveObject ==
    \E o \in Children :
        /\ edits < MaxContainerCalls
        /\ \E objs \in {[n \in DOMAIN objects \ {o} |-> objects[n]]} :
           \E r \in {ContainerObject_remove_object(World, container[1], objs, o)} :
            CommitContainer(r.w, ContainerCall("remove_object", r.raised,
                                               r.recomposed, r.overlaid, <<>>),
                            r.self, objs, edits + 1)

\* child.z_index = z
ContainerSetZIndex ==
    \E o \in Children, z \in ZIndexes :
        /\ edits < MaxContainerCalls
        /\ objects[o].z_index # z
        /\ CommitContainer(World, ContainerCall("z_index", "", FALSE, <<>>, <<>>),
                           container[1],
                           [objects EXCEPT ![o] = BaseObject_set_z_index(@, z)],
                           edits + 1)

\* child.visible = not child.visible
ContainerSetVisible ==
    \E o \in Children :
        /\ edits < MaxContainerCalls
        /\ CommitContainer(World, ContainerCall("visible", "", FALSE, <<>>, <<>>),
                           container[1], [objects EXCEPT ![o].visible = ~@],
                           edits + 1)

\* container.update(input_handler)
ContainerUpdate ==
    /\ edits < MaxContainerCalls
    /\ \E r \in {ContainerObject_update(World, container[1], objects)} :
        CommitContainer(r.w, ContainerCall("update", r.raised, r.recomposed,
                                           r.overlaid, <<>>),
                        r.self, objects, edits + 1)

\* container.draw()
ContainerDraw ==
    /\ edits < MaxContainerCalls
    /\ container[1].should_draw
    /\ CommitContainer(World, ContainerCall("draw", "", FALSE, <<>>, <<>>),
                       BaseObject_draw(container[1]), objects, edits + 1)

\* container.mouse_over = Point(x, y), or None
ContainerHitTest ==
    \E value \in CharPositions \cup {<<>>} :
        /\ edits < MaxContainerCalls
        /\ \E r \in {ContainerObject_set_mouse_over(container[1]._objects, objects,
                                                    grids, value)} :
            CommitContainer(World, ContainerCall("mouse_over", "", FALSE, <<>>,
                                                 r.children),
                            [container[1] EXCEPT !._objects = r.children],
                            r.objects, edits + 1)

NextContainer ==
    \/ ContainerAddObject
    \/ ContainerRemoveObject
    \/ ContainerSetZIndex
    \/ ContainerSetVisible
    \/ ContainerUpdate
    \/ ContainerDraw
    \/ ContainerHitTest

SpecContainer == InitContainer /\ [][NextContainer]_vars

\* The list is in ascending z_index order.
AscendingZ(list) ==
    \A i \in DOMAIN list : \A j \in DOMAIN list :
        i < j => objects[list[i]].z_index <= objects[list[j]].z_index

\* The visible children, in the order of the container's list.
VisibleChildren == SelectSeq(container[1]._objects, LAMBDA o : objects[o].visible)

----------------------------------------------------------------------------
(* SpecButton: a Button on a raw input (a key or mouse button read through *)
(* read_func) the user presses and releases at any moment, the frame loop  *)
(* calling update().  Time is counted in quarter seconds, the default      *)
(* hold_delay.  update reads the raw input twice; what the user does       *)
(* between the two reads is a step of its own.  The clock (time.time())   *)
(* starts above hold_delay.                                                *)

\* Calls of update in one run, and the last tick of the clock.
MaxUpdates == 3
MaxButtonTime == 5

\* Button(name, read_func, negated=negated) with the raw input as it is and
\* the clock at now.  at: where update is ("idle", or "read" after line 54);
\* before: _pressed and _toggled when the update began; updates: calls made.
Button_init(negated, raw, now) ==
    [_negated |-> negated, _hold_delay |-> 1,
     _pressed |-> FALSE, _held |-> FALSE, _released |-> FALSE,
     _just_pressed |-> FALSE, _just_released |-> FALSE, _toggled |-> FALSE,
     _last_press_time |-> 0,
     raw |-> raw, now |-> now, at |-> "idle",
     before |-> [_pressed |-> FALSE, _toggled |-> FALSE], updates |-> 0]

\* Button.update up to the edge flags: the raw input is read, inverted if
\* the button is negated, and compared with _pressed.
Button_update_edges(self) ==
    LET state == IF self._negated THEN ~self.raw ELSE self.raw
    IN  [self EXCEPT !._just_pressed = state /\ ~self._pressed,
                     !._just_released = ~state /\ self._pressed,
                     !.before = [_pressed |-> self._pressed,
                                 _toggled |-> self._toggled],
                     !.at = "read"]

\* Button.update from the second read on: _pressed is what read_func
\* returns now, then released, held, and toggled with the press time.
Button_update_states(self) ==
    LET pressed == self.raw
        s1 == [self EXCEPT !._pressed = pressed,
                           !._released = ~pressed,
                           !._held = pressed /\ (self.now - self._last_press_time)
                                                    > self._hold_delay,
                           !.at = "idle",
                           !.updates = @ + 1]
    IN  IF s1._just_pressed
        THEN [s1 EXCEPT !._toggled = ~@, !._last_press_time = self.now]
        ELSE s1

InitButton ==
    /\ \E negated \in BOOLEAN, raw \in BOOLEAN : button = <<Button_init(negated, raw, 2)>>
    /\ container = <<>>
    /\ rate_limiter = <<>>
    /\ pixel_row = <<>>
    /\ suppressor = <<>>
    /\ image = <<>>
    /\ priority_queue = <<>>
    /\ StandaloneOnly

CommitButton(self) ==
    /\ button' = <<self>>
    /\ UNCHANGED <<pixels, theme_dicts, grids, terminal, printed, call, entry,
                   edits, screen, objects, inserted, pc>>
    /\ UNCHANGED value_objects
    /\ UNCHANGED <<suppressor, image, priority_queue, container, rate_limiter,
                   pixel_row>>

\* The frame loop calls button.update(): lines 43-54.
ButtonUpdateBegin ==
    /\ button[1].at = "idle"
    /\ button[1].updates < MaxUpdates
    /\ CommitButton(Button_update_edges(button[1]))

\* update goes on: lines 57-68.
ButtonUpdateEnd ==
    /\ button[1].at = "read"
    /\ CommitButton(Button_update_states(button[1]))

\* The user presses or releases the key.
RawInputChanges ==
    /\ button[1].updates < MaxUpdates
    /\ CommitButton([button[1] EXCEPT !.raw = ~@])

\* A quarter of a second passes between two updates.
ButtonTick ==
    /\ button[1].at = "idle"
    /\ button[1].updates < MaxUpdates
    /\ button[1].now < MaxButtonTime
    /\ CommitButton([button[1] EXCEPT !.now = @ + 1])

NextButton ==
    \/ ButtonUpdateBegin
    \/ ButtonUpdateEnd
    \/ RawInputChanges
    \/ ButtonTick

SpecButton == InitButton /\ [][NextButton]_vars

\* An update has completed.
Updated == button[1].at = "idle" /\ button[1].updates > 0

\* C34: after every update, just_pressed is true iff pressed was false
\* before the update and is true after it, just_released iff pressed was
\* true before and is false after, released is not pressed, and toggled
\* differs from what it was before the update iff just_pressed is true --
\* negated or not, whatever the raw input does during the update.
C34_EdgeFlagsMatchPressed ==
    Updated =>
        /\ button[1]._just_pressed
            <=> (~button[1].before._pressed /\ button[1]._pressed)
        /\ button[1]._just_released
            <=> (button[1].before._pressed /\ ~button[1]._pressed)
        /\ button[1]._released = ~button[1]._pressed
        /\ (button[1]._toggled # button[1].before._toggled)
            <=> button[1]._just_pressed

----------------------------------------------------------------------------
(* SpecLimiter: a frame loop that does its work and then calls a           *)
(* RateLimiter, once per frame.  Time is counted in half seconds, so that  *)
(* 1 / fps is a whole number of ticks for fps 1 and 2; the clock is        *)
(* time.time(), seconds since 1970: it starts far above 1 / fps.           *)

\* Frames in one run, the longest work of a frame and the last tick.
MaxLimiterFrames == 4
MaxWork == 3
MaxClock == 16
\* The frame rates a client asks for.
MaxLimiterFps == 2

\* 1.0 / fps in ticks
RateOf(fps) == 2 \div fps

\* RateLimiter(fps) at time now.  at: "work" or "call"; returned: for the
\* calls made so far the time each returned at and the 1 / fps it was made
\* with, latest last; frames: frames begun.
RateLimiter_init(fps, now) ==
    [_fps |-> fps, _rate |-> RateOf(fps), last_call |-> 0,
     now |-> now, at |-> "work", returned |-> <<>>, frames |-> 0]

\* RateLimiter.fps setter
RateLimiter_set_fps(self, value) ==
    [self EXCEPT !._fps = value, !._rate = RateOf(value)]

\* RateLimiter.__call__: sleep for what is left of 1 / fps since last_call,
\* if anything is left, and only then take the time as last_call.
RateLimiter_call(self) ==
    LET remaining_time == self._rate - (self.now - self.last_call)
        slept == self.now + remaining_time
    IN  IF remaining_time > 0
        THEN [self EXCEPT !.now = slept, !.last_call = slept, !.at = "work",
                          !.returned = Append(@, [time |-> slept,
                                                  rate |-> self._rate])]
        ELSE [self EXCEPT !.at = "work",
                          !.returned = Append(@, [time |-> self.now,
                                                  rate |-> self._rate])]

InitLimiter ==
    /\ \E fps \in 1..MaxLimiterFps : rate_limiter = <<RateLimiter_init(fps, MaxWork + 1)>>
    /\ container = <<>>
    /\ button = <<>>
    /\ pixel_row = <<>>
    /\ suppressor = <<>>
    /\ image = <<>>
    /\ priority_queue = <<>>
    /\ StandaloneOnly

CommitLimiter(self) ==
    /\ rate_limiter' = <<self>>
    /\ UNCHANGED <<pixels, theme_dicts, grids, terminal, printed, call, entry,
                   edits, screen, objects, inserted, pc>>
    /\ UNCHANGED value_objects
    /\ UNCHANGED <<suppressor, image, priority_queue, container, button, pixel_row>>

\* The work of a frame takes d ticks.
FrameWork ==
    \E d \in 0..MaxWork :
        /\ rate_limiter[1].at = "work"
        /\ rate_limiter[1].frames < MaxLimiterFrames
        /\ rate_limiter[1].now + d + RateOf(1) <= MaxClock
        /\ CommitLimiter([rate_limiter[1] EXCEPT !.now = @ + d, !.at = "call",
                                                 !.frames = @ + 1])

\* rate_limiter()
LimiterCall ==
    /\ rate_limiter[1].at = "call"
    /\ CommitLimiter(RateLimiter_call(rate_limiter[1]))

\* terminal_system.desired_fps = value
LimiterSetFps ==
    \E value \in 1..MaxLimiterFps :
        /\ rate_limiter[1].at = "work"
        /\ rate_limiter[1].frames < MaxLimiterFrames
        /\ value # rate_limiter[1]._fps
        /\ CommitLimiter(RateLimiter_set_fps(rate_limiter[1], value))

NextLimiter ==
    \/ FrameWork
    \/ LimiterCall
    \/ LimiterSetFps

SpecLimiter == InitLimiter /\ [][NextLimiter]_vars

\* C35: any two consecutive returns of the call are at least 1 / fps apart,
\* whatever the work of the frames took.
C35_ReturnsAtLeastOnePeriodApart ==
    \A i \in 1..(Len(rate_limiter[1].returned) - 1) :
        rate_limiter[1].returned[i + 1].time - rate_limiter[1].returned[i].time
            >= rate_limiter[1].returned[i + 1].rate

----------------------------------------------------------------------------
(* SpecRow: _get_pixel_row on rows of an image file that carry colour      *)
(* codes.  A row is a sequence of characters; "\\033" stands for the four  *)
(* characters backslash, 0, 3, 3 as the file spells an escape, "ESC" for   *)
(* the escape character itself.  A colour is the string of its code (a     *)
(* sequence of characters); a pixel is its char and the colour list its    *)
(* PixelTheme is built from.                                               *)

\* Tokens (colour codes, reset codes, ordinary characters) in a row.
MaxRowTokens == 4

\* row.replace("\\033", "\033")
ReplaceEscapes(row) == [i \in DOMAIN row |-> IF row[i] = "\\033" THEN "ESC" ELSE row[i]]

\* Colors.END.color and Colors.RED.color, character by character.
EndCode == <<"ESC", "[", "0", "m">>
RedCode == <<"ESC", "[", "3", "1", "m">>

\* Colors.color_from_code(color_str): the Color of that code, or ValueError
\* when the string does not start with ESC [.
color_from_code(color_str) ==
    IF Len(color_str) >= 2 /\ color_str[1] = "ESC" /\ color_str[2] = "["
    THEN [raised |-> "", color |-> color_str]
    ELSE [raised |-> "ValueError", color |-> <<>>]

\* The state of the loop of _get_pixel_row.
RowLoopStart ==
    [pixel_row |-> <<>>, char_count |-> 0, color_list |-> <<>>,
     color_string |-> <<>>, raised |-> ""]

RECURSIVE RowLoop(_, _, _, _)
\* for char in formatted_row: ...
RowLoop(chars, width, base_colors, st) ==
    IF chars = <<>> \/ st.raised # "" THEN st
    ELSE LET char == Head(chars)
         IN  IF st.color_string # <<>>
             THEN LET color_string == Append(st.color_string, char)
                      code == color_from_code(color_string)
                  IN  RowLoop(Tail(chars), width, base_colors,
                          IF char # "m"
                          THEN [st EXCEPT !.color_string = color_string]
                          ELSE IF color_string = EndCode
                          THEN [st EXCEPT !.color_string = color_string,
                                          !.color_list = <<>>]
                          ELSE IF code.raised # ""
                          THEN [st EXCEPT !.color_string = color_string,
                                          !.raised = code.raised]
                          ELSE [st EXCEPT !.color_list = Append(@, code.color),
                                          !.color_string = <<>>])
             ELSE IF char = "ESC"
             THEN RowLoop(Tail(chars), width, base_colors,
                          [st EXCEPT !.color_string = <<char>>])
             ELSE LET made == [st EXCEPT
                                  !.char_count = @ + 1,
                                  !.pixel_row = Append(@,
                                      [char |-> char,
                                       colors |-> base_colors \o st.color_list])]
                  IN  IF made.char_count = width THEN made
                      ELSE RowLoop(Tail(chars), width, base_colors, made)

\* _get_pixel_row(row, width, base_colors): the pixels, or the exception.
get_pixel_row_codes(row, width, base_colors) ==
    LET st == RowLoop(ReplaceEscapes(row), width, base_colors, RowLoopStart)
    IN  [pixel_row |-> st.pixel_row, raised |-> st.raised]

\* What a row is written from: a colour code, the reset code, characters.
RowTokens == {"red", "reset", "a", "b", "m"}

\* The text of a token as the file spells it.
TokenText(token) ==
    IF token = "red" THEN <<"\\033", "[", "3", "1", "m">>
    ELSE IF token = "reset" THEN <<"\\033", "[", "0", "m">>
    ELSE <<token>>

RECURSIVE RowText(_)
RowText(tokens) ==
    IF tokens = <<>> THEN <<>> ELSE TokenText(Head(tokens)) \o RowText(Tail(tokens))

\* base_colors of the metadata line: none, or bold.
BaseColors == {<<>>, <<<<"ESC", "[", "1", "m">>>>}

\* The rows handed to _get_pixel_row: n tokens, a width, base colours.
RowInputs(n) ==
    {[tokens |-> tokens, width |-> width, base_colors |-> base_colors,
      parsed |-> FALSE, pixel_row |-> <<>>, raised |-> ""] :
        tokens \in [1..n -> RowTokens], width \in 1..(MaxRowTokens + 1),
        base_colors \in BaseColors}

InitRow ==
    /\ \E n \in 0..MaxRowTokens : \E input \in RowInputs(n) : pixel_row = <<input>>
    /\ container = <<>>
    /\ button = <<>>
    /\ rate_limiter = <<>>
    /\ suppressor = <<>>
    /\ image = <<>>
    /\ priority_queue = <<>>
    /\ StandaloneOnly

\* _get_pixel_row is called on the row.
ParseRow ==
    /\ ~pixel_row[1].parsed
    /\ \E r \in {get_pixel_row_codes(RowText(pixel_row[1].tokens),
                                      pixel_row[1].width,
                                      pixel_row[1].base_colors)} :
            pixel_row' = <<[pixel_row[1] EXCEPT !.parsed = TRUE,
                                                !.pixel_row = r.pixel_row,
                                                !.raised = r.raised]>>
    /\ UNCHANGED <<pixels, theme_dicts, grids, terminal, printed, call,
                   entry, edits, screen, objects, inserted, pc>>
    /\ UNCHANGED value_objects
    /\ UNCHANGED <<suppressor, image, priority_queue, container, button,
                   rate_limiter>>

NextRow == ParseRow

SpecRow == InitRow /\ [][NextRow]_vars

RECURSIVE PixelsOf(_, _, _, _)
\* The pixels a row of tokens stands for: each character a pixel with the
\* base colours and the inline colours met since the last reset, up to
\* width pixels.
PixelsOf(tokens, width, base_colors, active) ==
    IF tokens = <<>> \/ width = 0 THEN <<>>
    ELSE IF Head(tokens) = "red"
    THEN PixelsOf(Tail(tokens), width, base_colors, Append(active, RedCode))
    ELSE IF Head(tokens) = "reset"
    THEN PixelsOf(Tail(tokens), width, base_colors, <<>>)
    ELSE <<[char |-> Head(tokens), colors |-> base_colors \o active]>>
            \o PixelsOf(Tail(tokens), width - 1, base_colors, active)

\* C37: for a row with a bare reset code, parsing does not raise and every
\* ordinary character (up to width of them), those after the reset
\* included, becomes a pixel with the base colours plus the inline colours
\* met since the reset; no character is taken into an escape code.
C37_ResetClearsInlineColors ==
    \A i \in DOMAIN pixel_row :
        (/\ pixel_row[i].parsed
         /\ \E t \in DOMAIN pixel_row[i].tokens : pixel_row[i].tokens[t] = "reset") =>
            /\ pixel_row[i].raised = ""
            /\ pixel_row[i].pixel_row =
                  PixelsOf(pixel_row[i].tokens, pixel_row[i].width,
                           pixel_row[i].base_colors, <<>>)

=============================================================================
